---- MODULE Spec2Model ----
(***************************************************************************)
(* Sigil protocol core: identity derivation, canonical signing of agent    *)
(* documents, soul-hash attestation, the key rotation / revocation chain,  *)
(* and the SigilAgent class built on them.  Cryptography is symbolic: a    *)
(* signature names the key that made it and the exact bytes it covers, a   *)
(* digest names its preimage.                                              *)
(* Strings produced by an encoding (hex, base58) are sequences of          *)
(* characters; JavaScript objects are sequences of <<key, value>> pairs in *)
(* insertion order.                                                        *)
(***************************************************************************)
EXTENDS Integers, Sequences, FiniteSets, TLC

(***************************************************************************)
(* Bounds                                                                  *)
(***************************************************************************)
NumKeys == 3
MaxRot == 2
MaxRev == 2
MaxTime == 0
MaxFiles == 2
MaxCalls == 4

KeyIds == 1..NumKeys
Times == 0..MaxTime

(***************************************************************************)
(* JSON values.  Each kind of value is a record with its own field name,   *)
(* so values of different kinds are unequal.                               *)
(***************************************************************************)
Str(lit) == [s |-> lit]
Chars(cs) == [c |-> cs]
Time(n) == [ts |-> n]
Bool(b) == [b |-> b]
Arr(items) == [a |-> items]
Obj(pairs) == [o |-> pairs]
SigText(sig) == [g |-> sig]

IsObj(v) == "o" \in DOMAIN v
IsArr(v) == "a" \in DOMAIN v
IsSigText(v) == "g" \in DOMAIN v

Undefined == [u |-> "undefined"]

(***************************************************************************)
(* JavaScript object helpers (objects are sequences of <<key, value>>).    *)
(***************************************************************************)
Has(obj, k) == \E i \in 1..Len(obj) : obj[i][1] = k

Get(obj, k) ==
  IF Has(obj, k) THEN obj[CHOOSE i \in 1..Len(obj) : obj[i][1] = k][2]
  ELSE Undefined

ObjectKeys(obj) == [i \in 1..Len(obj) |-> obj[i][1]]

Put(obj, k, v) ==
  IF Has(obj, k)
  THEN [i \in 1..Len(obj) |-> IF obj[i][1] = k THEN <<k, v>> ELSE obj[i]]
  ELSE Append(obj, <<k, v>>)

RECURSIVE Omit(_, _)
Omit(obj, ks) ==
  IF obj = <<>> THEN <<>>
  ELSE IF Head(obj)[1] \in ks THEN Omit(Tail(obj), ks)
       ELSE <<Head(obj)>> \o Omit(Tail(obj), ks)

(***************************************************************************)
(* Array.prototype.sort() on strings: order by UTF-16 code units.  The     *)
(* table lists every name the model uses in that order.                    *)
(***************************************************************************)
CodeUnitOrder ==
  << "@context", "AGENTS.md", "SOUL.md", "TOOLS.md", "a2a", "action",
     "attestedAt", "capabilities", "claim", "configHash", "context",
     "created", "endpoints", "files", "framework", "from", "fromProof",
     "id", "integrity", "method", "moltbook", "name", "newKey", "owner",
     "previousKey", "proof", "proofValue", "publicKey", "quality",
     "reason", "revokedAt", "revokedKey", "rotatedAt", "sigilId",
     "signature", "soulHash", "timestamp", "to", "toProof", "type",
     "validated", "verificationMethod", "verifiedAt", "version" >>

RankOf ==
  [ name \in { CodeUnitOrder[i] : i \in 1..Len(CodeUnitOrder) } |->
      CHOOSE i \in 1..Len(CodeUnitOrder) : CodeUnitOrder[i] = name ]

Rank(name) == RankOf[name]

RECURSIVE InsertSorted(_, _)
InsertSorted(x, sorted) ==
  IF sorted = <<>> THEN <<x>>
  ELSE IF Rank(x) <= Rank(Head(sorted)) THEN <<x>> \o sorted
       ELSE <<Head(sorted)>> \o InsertSorted(x, Tail(sorted))

RECURSIVE Sort(_)
Sort(names) ==
  IF names = <<>> THEN <<>>
  ELSE InsertSorted(Head(names), Sort(Tail(names)))

(***************************************************************************)
(* JSON.stringify(value, allowList): with an array replacer only the       *)
(* listed property names are serialized, in the list's order, and the same *)
(* list filters every nested object.  The text is kept as the ordered      *)
(* structure it spells out.                                                *)
(***************************************************************************)
RECURSIVE StringifyValue(_, _)
RECURSIVE StringifyObject(_, _)
StringifyValue(v, allow) ==
  IF IsObj(v) THEN Obj(StringifyObject(v.o, allow))
  ELSE IF IsArr(v) THEN Arr([i \in 1..Len(v.a) |-> StringifyValue(v.a[i], allow)])
  ELSE v

StringifyObject(obj, allow) ==
  IF allow = <<>> THEN <<>>
  ELSE (IF Has(obj, Head(allow))
        THEN << <<Head(allow), StringifyValue(Get(obj, Head(allow)), allow)>> >>
        ELSE <<>>)
       \o StringifyObject(obj, Tail(allow))

JSONStringifyWith(obj, allow) == StringifyObject(obj, allow)

\* JSON.stringify(value) without a replacer: every property, insertion order.
JSONStringify(obj) == obj

(***************************************************************************)
(* Encodings                                                               *)
(***************************************************************************)
HexDigits == << "0", "1", "2", "3", "4", "5", "6", "7",
                "8", "9", "a", "b", "c", "d", "e", "f" >>

RECURSIVE bytesToHex(_)
bytesToHex(bytes) ==
  IF bytes = <<>> THEN <<>>
  ELSE << HexDigits[(Head(bytes) \div 16) + 1], HexDigits[(Head(bytes) % 16) + 1] >>
       \o bytesToHex(Tail(bytes))

\* parseInt reads the digits in either case.
HexDigitsUpper == << "0", "1", "2", "3", "4", "5", "6", "7",
                     "8", "9", "A", "B", "C", "D", "E", "F" >>

IsHexDigit(ch) == \E i \in 1..16 : HexDigits[i] = ch \/ HexDigitsUpper[i] = ch
HexDigitValue(ch) == (CHOOSE i \in 1..16 : HexDigits[i] = ch \/ HexDigitsUpper[i] = ch) - 1

\* String.prototype.toUpperCase on a hex text.
ToUpperHex(hex) ==
  [i \in 1..Len(hex) |->
     IF \E j \in 1..16 : HexDigits[j] = hex[i]
     THEN HexDigitsUpper[CHOOSE j \in 1..16 : HexDigits[j] = hex[i]]
     ELSE hex[i]]

\* parseInt(two characters, 16) stored into a Uint8Array element: the longest
\* hexadecimal prefix is parsed, and NaN is stored as 0.
ParseHexPair(c1, c2) ==
  IF ~IsHexDigit(c1) THEN 0
  ELSE IF ~IsHexDigit(c2) THEN HexDigitValue(c1)
  ELSE 16 * HexDigitValue(c1) + HexDigitValue(c2)

RECURSIVE hexToBytes(_)
hexToBytes(hex) ==
  IF Len(hex) < 2 THEN <<>>
  ELSE <<ParseHexPair(hex[1], hex[2])>> \o hexToBytes(SubSeq(hex, 3, Len(hex)))

Base58Alphabet ==
  << "1", "2", "3", "4", "5", "6", "7", "8", "9",
     "A", "B", "C", "D", "E", "F", "G", "H", "J", "K", "L", "M", "N", "P",
     "Q", "R", "S", "T", "U", "V", "W", "X", "Y", "Z",
     "a", "b", "c", "d", "e", "f", "g", "h", "i", "j", "k", "m", "n", "o",
     "p", "q", "r", "s", "t", "u", "v", "w", "x", "y", "z" >>

RECURSIVE BytesToNat(_)
BytesToNat(bytes) ==
  IF bytes = <<>> THEN 0
  ELSE BytesToNat(SubSeq(bytes, 1, Len(bytes) - 1)) * 256 + bytes[Len(bytes)]

RECURSIVE LeadingCount(_, _)
LeadingCount(seq, x) ==
  IF seq = <<>> \/ Head(seq) # x THEN 0 ELSE 1 + LeadingCount(Tail(seq), x)

Repeat(x, n) == [i \in 1..n |-> x]

RECURSIVE NatToBase58(_)
NatToBase58(n) ==
  IF n = 0 THEN <<>>
  ELSE Append(NatToBase58(n \div 58), Base58Alphabet[(n % 58) + 1])

\* Faulty variant: leading zero bytes are not written.
bs58encodeDroppingZeros(bytes) == NatToBase58(BytesToNat(bytes))

bs58encode(bytes) ==
  Repeat("1", LeadingCount(bytes, 0)) \o NatToBase58(BytesToNat(bytes))

IsBase58(text) == \A i \in 1..Len(text) : \E j \in 1..58 : Base58Alphabet[j] = text[i]
Base58Value(ch) == (CHOOSE j \in 1..58 : Base58Alphabet[j] = ch) - 1

RECURSIVE Base58ToNat(_)
Base58ToNat(text) ==
  IF text = <<>> THEN 0
  ELSE Base58ToNat(SubSeq(text, 1, Len(text) - 1)) * 58 + Base58Value(text[Len(text)])

RECURSIVE NatToBytes(_)
NatToBytes(n) ==
  IF n = 0 THEN <<>> ELSE Append(NatToBytes(n \div 256), n % 256)

\* Defined for text that IsBase58; bs58.decode throws on anything else.
bs58decode(text) ==
  Repeat(0, LeadingCount(text, "1")) \o NatToBytes(Base58ToNat(text))

(***************************************************************************)
(* Identity                                                                *)
(***************************************************************************)
\* The public keys of the model's keypairs, one byte each: a zero byte, and
\* values below and above 58.
PublicKeyOf(i) == << ((i - 1) * 61) % 256 >>

getPublicKey(privateKey) == [i \in 1..Len(privateKey) |-> 255 - privateKey[i]]

generateKeypair(i) ==
  [ publicKey  |-> PublicKeyOf(i),
    privateKey |-> [j \in 1..Len(PublicKeyOf(i)) |-> 255 - PublicKeyOf(i)[j]] ]

PublicKeys == { PublicKeyOf(i) : i \in KeyIds }

SIGIL_PREFIX == << "s", "i", "g", "i", "l", ":" >>

deriveSigilId(publicKey) == SIGIL_PREFIX \o bs58encode(publicKey)

StartsWith(text, prefix) ==
  Len(text) >= Len(prefix) /\ SubSeq(text, 1, Len(prefix)) = prefix

publicKeyFromSigilIdThrows(sigilId) ==
  \/ ~StartsWith(sigilId, SIGIL_PREFIX)
  \/ ~IsBase58(SubSeq(sigilId, Len(SIGIL_PREFIX) + 1, Len(sigilId)))

publicKeyFromSigilId(sigilId) ==
  bs58decode(SubSeq(sigilId, Len(SIGIL_PREFIX) + 1, Len(sigilId)))

\* ed.sign / ed.verify: a signature is valid for exactly the key whose
\* private half made it and exactly the bytes it was made over.
sign(message, privateKey) == [signer |-> getPublicKey(privateKey), msg |-> message]

\* Faulty variant: the key is not compared.
verifyAnyKey(signature, message, publicKey) ==
  signature.msg = message

verify(signature, message, publicKey) ==
  signature.signer = publicKey /\ signature.msg = message

signString(message, privateKey) == SigText(sign(message, privateKey))

verifyStringThrows(signature) == ~IsSigText(signature)

verifyString(signature, message, publicKey) ==
  IF verifyStringThrows(signature) THEN FALSE
  ELSE verify(signature.g, message, publicKey)

\* A well-formed signature text that no key produced.
ForgedProof == SigText([signer |-> <<>>, msg |-> <<>>])

(***************************************************************************)
(* Key rotation module                                                     *)
(***************************************************************************)
createRotation(oldKeypair, newPublicKey, reason, now) ==
  LET body == << <<"type", Str("key-rotation")>>,
                 <<"previousKey", Chars(bytesToHex(oldKeypair.publicKey))>>,
                 <<"newKey", Chars(bytesToHex(newPublicKey))>>,
                 <<"sigilId", Chars(deriveSigilId(oldKeypair.publicKey))>>,
                 <<"rotatedAt", Time(now)>>,
                 <<"reason", Str(reason)>> >>
      canonical == JSONStringifyWith(body, Sort(ObjectKeys(body)))
      proof == signString(canonical, oldKeypair.privateKey)
  IN  Append(body, <<"proof", proof>>)

\* Faulty variant: the proof is checked under the incoming key.
verifyRotationUnderNewKey(rotation) ==
  LET proof == Get(rotation, "proof")
      body == Omit(rotation, {"proof"})
      canonical == JSONStringifyWith(body, Sort(ObjectKeys(body)))
      newPublicKey == hexToBytes(Get(rotation, "newKey").c)
  IN  verifyString(proof, canonical, newPublicKey)

verifyRotation(rotation) ==
  LET proof == Get(rotation, "proof")
      body == Omit(rotation, {"proof"})
      canonical == JSONStringifyWith(body, Sort(ObjectKeys(body)))
      oldPublicKey == hexToBytes(Get(rotation, "previousKey").c)
  IN  verifyString(proof, canonical, oldPublicKey)

createRevocation(signerKeypair, revokedPublicKey, reason, now) ==
  LET body == << <<"type", Str("key-revocation")>>,
                 <<"revokedKey", Chars(bytesToHex(revokedPublicKey))>>,
                 <<"sigilId", Chars(deriveSigilId(signerKeypair.publicKey))>>,
                 <<"revokedAt", Time(now)>>,
                 <<"reason", Str(reason)>> >>
      canonical == JSONStringifyWith(body, Sort(ObjectKeys(body)))
      proof == signString(canonical, signerKeypair.privateKey)
  IN  Append(body, <<"proof", proof>>)

verifyRevocation(revocation, signerPublicKey) ==
  LET proof == Get(revocation, "proof")
      body == Omit(revocation, {"proof"})
      canonical == JSONStringifyWith(body, Sort(ObjectKeys(body)))
  IN  verifyString(proof, canonical, signerPublicKey)

buildKeyChain(originalPublicKey, rots, revs) ==
  [ originalKey |-> Chars(bytesToHex(originalPublicKey)),
    currentKey  |-> IF Len(rots) > 0 THEN Get(rots[Len(rots)], "newKey")
                    ELSE Chars(bytesToHex(originalPublicKey)),
    rotations   |-> rots,
    revocations |-> revs ]

\* The for loop of verifyKeyChain, from index i (1-based here; brokenAt is
\* reported zero-based as in the code).
RECURSIVE WalkRotations(_, _, _)
WalkRotations(chain, i, expectedPreviousKey) ==
  IF i > Len(chain.rotations)
  THEN [valid |-> TRUE, currentKey |-> expectedPreviousKey]
  ELSE LET rotation == chain.rotations[i] IN
       IF Get(rotation, "previousKey") # expectedPreviousKey
       THEN [valid |-> FALSE, currentKey |-> expectedPreviousKey, brokenAt |-> i - 1]
       ELSE IF ~verifyRotation(rotation)
       THEN [valid |-> FALSE, currentKey |-> expectedPreviousKey, brokenAt |-> i - 1]
       ELSE WalkRotations(chain, i + 1, Get(rotation, "newKey"))

\* Faulty variant: the signature check of the walk is missing.
RECURSIVE WalkRotationsUnsigned(_, _, _)
WalkRotationsUnsigned(chain, i, expectedPreviousKey) ==
  IF i > Len(chain.rotations)
  THEN [valid |-> TRUE, currentKey |-> expectedPreviousKey]
  ELSE LET rotation == chain.rotations[i] IN
       IF Get(rotation, "previousKey") # expectedPreviousKey
       THEN [valid |-> FALSE, currentKey |-> expectedPreviousKey, brokenAt |-> i - 1]
       ELSE WalkRotationsUnsigned(chain, i + 1, Get(rotation, "newKey"))

verifyKeyChainUnsigned(chain) == WalkRotationsUnsigned(chain, 1, chain.originalKey)

\* Faulty variant: every rotation is examined and the last bad one reported.
RECURSIVE WalkAllRotations(_, _, _, _)
WalkAllRotations(chain, i, expectedPreviousKey, found) ==
  IF i > Len(chain.rotations)
  THEN IF found = [none |-> TRUE]
       THEN [valid |-> TRUE, currentKey |-> expectedPreviousKey]
       ELSE found
  ELSE LET rotation == chain.rotations[i] IN
       WalkAllRotations(chain, i + 1, Get(rotation, "newKey"),
                        IF \/ Get(rotation, "previousKey") # expectedPreviousKey
                           \/ ~verifyRotation(rotation)
                        THEN [valid |-> FALSE, currentKey |-> expectedPreviousKey,
                              brokenAt |-> i - 1]
                        ELSE found)

verifyKeyChainWholeList(chain) ==
  WalkAllRotations(chain, 1, chain.originalKey, [none |-> TRUE])

\* Faulty variant: a broken chain reports the chain's stated current key.
verifyKeyChainStatedKey(chain) ==
  LET r == WalkRotations(chain, 1, chain.originalKey)
  IN  IF r.valid THEN r ELSE [r EXCEPT !.currentKey = chain.currentKey]

verifyKeyChain(chain) == WalkRotations(chain, 1, chain.originalKey)

isKeyRevoked(chain, publicKeyHex) ==
  \E i \in 1..Len(chain.revocations) :
    /\ Get(chain.revocations[i], "revokedKey") = publicKeyHex
    /\ Get(chain.revocations[i], "validated") = Bool(TRUE)

(***************************************************************************)
(* Integrity module.  A digest names its preimage (sha256 is taken to be   *)
(* collision free); hashes.join('\n') of fixed-width digests is the list   *)
(* of its lines.                                                           *)
(***************************************************************************)
Sha256Tagged(preimage) == [sha256 |-> preimage]
Lines(hashes) == [lines |-> hashes]

hashContent(content) == Sha256Tagged(content)

\* Faulty variant: per-file digests are joined in insertion order (no sort).
computeSoulHashUnsorted(files) ==
  LET keys == ObjectKeys(files)
      hashes == [i \in 1..Len(keys) |-> hashContent(Get(files, keys[i]))]
  IN  Sha256Tagged(Lines(hashes))

\* Faulty variant: the file name is digested in place of the file's content.
computeSoulHashOfNames(files) ==
  LET sortedKeys == Sort(ObjectKeys(files))
      hashes == [i \in 1..Len(sortedKeys) |-> hashContent(Str(sortedKeys[i]))]
  IN  Sha256Tagged(Lines(hashes))

computeSoulHash(files) ==
  LET sortedKeys == Sort(ObjectKeys(files))
      hashes == [i \in 1..Len(sortedKeys) |-> hashContent(Get(files, sortedKeys[i]))]
      combined == Lines(hashes)
  IN  Sha256Tagged(combined)

FileNameList(names) == Arr([i \in 1..Len(names) |-> Str(names[i])])

createAttestation(files, privateKey, now) ==
  LET soulHash == computeSoulHash(files)
      fileNames == FileNameList(Sort(ObjectKeys(files)))
      attestedAt == Time(now)
      payload == JSONStringify(<< <<"soulHash", soulHash>>,
                                  <<"files", fileNames>>,
                                  <<"attestedAt", attestedAt>> >>)
      signature == signString(payload, privateKey)
  IN  << <<"soulHash", soulHash>>,
         <<"files", fileNames>>,
         <<"attestedAt", attestedAt>>,
         <<"signature", signature>> >>

\* Faulty variant: the signature is matched to the key but not to the payload.
verifyAttestationSignerOnly(attestation, currentFiles, publicKey) ==
  LET signatureValid == /\ IsSigText(Get(attestation, "signature"))
                        /\ Get(attestation, "signature").g.signer = publicKey
      currentHash == computeSoulHash(currentFiles)
      hashMatch == currentHash = Get(attestation, "soulHash")
  IN  [ intact |-> signatureValid /\ hashMatch, signatureValid |-> signatureValid,
        hashMatch |-> hashMatch, currentHash |-> currentHash ]

\* Faulty variant: intact reports the signature check alone.
verifyAttestationSignatureOnly(attestation, currentFiles, publicKey) ==
  LET payload == JSONStringify(<< <<"soulHash", Get(attestation, "soulHash")>>,
                                  <<"files", Get(attestation, "files")>>,
                                  <<"attestedAt", Get(attestation, "attestedAt")>> >>)
      signatureValid == verifyString(Get(attestation, "signature"), payload, publicKey)
      currentHash == computeSoulHash(currentFiles)
      hashMatch == currentHash = Get(attestation, "soulHash")
  IN  [ intact |-> signatureValid, signatureValid |-> signatureValid,
        hashMatch |-> hashMatch, currentHash |-> currentHash ]

verifyAttestation(attestation, currentFiles, publicKey) ==
  LET payload == JSONStringify(<< <<"soulHash", Get(attestation, "soulHash")>>,
                                  <<"files", Get(attestation, "files")>>,
                                  <<"attestedAt", Get(attestation, "attestedAt")>> >>)
      signatureValid == verifyString(Get(attestation, "signature"), payload, publicKey)
      currentHash == computeSoulHash(currentFiles)
      hashMatch == currentHash = Get(attestation, "soulHash")
  IN  [ intact |-> signatureValid /\ hashMatch, signatureValid |-> signatureValid,
        hashMatch |-> hashMatch, currentHash |-> currentHash ]

(***************************************************************************)
(* Agent document module                                                   *)
(***************************************************************************)
SIGIL_CONTEXT == Str("https://sigil.dev/v1")
KeyOneSuffix == << "#", "k", "e", "y", "-", "1" >>

\* JavaScript truthiness of an optional string, array or object.
Truthy(v) == v # Undefined /\ v # Str("")

Spread(cond, key, value) == IF Truthy(cond) THEN << <<key, value>> >> ELSE <<>>

createDocumentBody(keypair, options, integrity, owner, now) ==
  LET sigilId == deriveSigilId(keypair.publicKey)
  IN  << <<"@context", SIGIL_CONTEXT>>,
         <<"id", Chars(sigilId)>>,
         <<"name", Get(options, "name")>> >>
      \o Spread(Get(options, "framework"), "framework", Get(options, "framework"))
      \o Spread(Get(options, "version"), "version", Get(options, "version"))
      \o << <<"created", Time(now)>> >>
      \o Spread(Get(options, "capabilities"), "capabilities", Get(options, "capabilities"))
      \o Spread(Get(options, "endpoints"), "endpoints", Get(options, "endpoints"))
      \o Spread(owner, "owner", owner)
      \o Spread(integrity, "integrity", integrity)

canonicalize(obj) == JSONStringifyWith(obj, Sort(ObjectKeys(obj)))

createDocument(keypair, options, integrity, owner, now, proofNow) ==
  LET body == createDocumentBody(keypair, options, integrity, owner, now)
      canonical == canonicalize(body)
      proofValue == signString(canonical, keypair.privateKey)
      sigilId == deriveSigilId(keypair.publicKey)
      proof == Obj(<< <<"type", Str("Ed25519Signature2020")>>,
                      <<"created", Time(proofNow)>>,
                      <<"verificationMethod", Chars(sigilId \o KeyOneSuffix)>>,
                      <<"proofValue", proofValue>> >>)
  IN  Append(body, <<"proof", proof>>)

verifyDocumentThrows(doc) ==
  \/ publicKeyFromSigilIdThrows(Get(doc, "id").c)
  \/ verifyStringThrows(Get(Get(doc, "proof").o, "proofValue"))

\* Faulty variant: the proof is left inside the bytes that are verified.
verifyDocumentWithProof(doc) ==
  LET publicKey == publicKeyFromSigilId(Get(doc, "id").c)
      proof == Get(doc, "proof").o
      canonical == canonicalize(doc)
  IN  ~verifyDocumentThrows(doc) /\ verifyString(Get(proof, "proofValue"), canonical, publicKey)

\* Faulty variant: the identifier is treated as unsigned metadata and the proof is
\* checked under the key its own verificationMethod names.
verifyDocumentUnbound(doc) ==
  LET proof == Get(doc, "proof").o
      method == Get(proof, "verificationMethod").c
      publicKey == publicKeyFromSigilId(SubSeq(method, 1, Len(method) - Len(KeyOneSuffix)))
      sig == Get(proof, "proofValue")
  IN  /\ IsSigText(sig)
      /\ sig.g.signer = publicKey
      /\ Omit(sig.g.msg, {"id"}) = Omit(canonicalize(Omit(doc, {"proof"})), {"id"})

verifyDocument(doc) ==
  LET publicKey == publicKeyFromSigilId(Get(doc, "id").c)
      proof == Get(doc, "proof").o
      body == Omit(doc, {"proof"})
      canonical == canonicalize(body)
  IN  ~verifyDocumentThrows(doc) /\ verifyString(Get(proof, "proofValue"), canonical, publicKey)

(***************************************************************************)
(* SigilAgent.  An agent object is a record of its fields.  The arrays     *)
(* _rotations and _revocations live in a heap, a sequence of arrays, and   *)
(* an array-valued field holds the index of its array, so that two objects *)
(* holding the same array see each other's pushes.                         *)
(***************************************************************************)
Null == [n |-> "null"]
Bytes(b) == [bytes |-> b]

\* The constructor, given the arrays that the field initializers allocated
\* (originalPublicKey is Undefined, or the bytes passed by fromKeyChain).
SigilAgent(keypair, options, originalPublicKey, rotationsRef, revocationsRef) ==
  LET original == IF originalPublicKey = Undefined THEN keypair.publicKey
                  ELSE originalPublicKey.bytes
  IN  [ keypair           |-> keypair,
        originalPublicKey |-> original,
        id                |-> Chars(deriveSigilId(original)),
        name              |-> Get(options, "name"),
        options           |-> options,
        document          |-> Null,
        attestation       |-> Null,
        rotations         |-> rotationsRef,
        revocations       |-> revocationsRef ]

\* SigilAgent.create(options) with the keypair generateKeypair() returned,
\* and SigilAgent.fromKeypair(keypair, options).
fromKeypair(h, keypair, options) ==
  [ agent |-> SigilAgent(keypair, options, Undefined, Len(h) + 1, Len(h) + 2),
    heap  |-> h \o << <<>>, <<>> >> ]

document(a, owner, now, proofNow) ==
  LET made == createDocument(a.keypair, a.options,
                             IF a.attestation = Null THEN Undefined ELSE a.attestation,
                             owner, now, proofNow)
  IN  [ agent |-> [a EXCEPT !.document = Obj(made)], value |-> made ]

attestIntegrity(a, files, now) ==
  LET made == createAttestation(files, a.keypair.privateKey, now)
  IN  [ agent |-> [a EXCEPT !.attestation = Obj(made)], value |-> made ]

verifyIntegrity(a, attestation, currentFiles) ==
  verifyAttestation(attestation, currentFiles, a.keypair.publicKey)

\* Number-to-string conversion of a template literal, non-negative integers.
DecimalDigits == << "0", "1", "2", "3", "4", "5", "6", "7", "8", "9" >>

RECURSIVE ToDecimal(_)
ToDecimal(n) ==
  IF n < 10 THEN << DecimalDigits[n + 1] >>
  ELSE Append(ToDecimal(n \div 10), DecimalDigits[(n % 10) + 1])

\* `receipt-${Date.now()}-${++receiptSeq}`
ReceiptId(now, seq) ==
  Chars(<< "r", "e", "c", "e", "i", "p", "t", "-" >> \o ToDecimal(now) \o << "-" >>
        \o ToDecimal(seq))

\* Faulty variant: the counter is read but the incremented value is not kept.
issueReceiptNotCounting(a, seq, params, now) ==
  LET receipt == << <<"type", Str("interaction-receipt")>>,
                    <<"id", ReceiptId(now, seq + 1)>>,
                    <<"from", a.id>>,
                    <<"to", Get(params, "to")>>,
                    <<"timestamp", Time(now)>>,
                    <<"action", Get(params, "action")>>,
                    <<"quality", Get(params, "quality")>> >>
                 \o Spread(Get(params, "context"), "context", Get(params, "context"))
                 \o << <<"fromProof", Str("")>> >>
      body == Omit(receipt, {"fromProof", "toProof"})
      payload == JSONStringify(body)
  IN  [ receiptSeq |-> seq,
        value |-> Put(receipt, "fromProof", signString(payload, a.keypair.privateKey)) ]


issueReceipt(a, seq, params, now) ==
  LET receipt == << <<"type", Str("interaction-receipt")>>,
                    <<"id", ReceiptId(now, seq + 1)>>,
                    <<"from", a.id>>,
                    <<"to", Get(params, "to")>>,
                    <<"timestamp", Time(now)>>,
                    <<"action", Get(params, "action")>>,
                    <<"quality", Get(params, "quality")>> >>
                 \o Spread(Get(params, "context"), "context", Get(params, "context"))
                 \o << <<"fromProof", Str("")>> >>
      body == Omit(receipt, {"fromProof", "toProof"})
      payload == JSONStringify(body)
  IN  [ receiptSeq |-> seq + 1,
        value |-> Put(receipt, "fromProof", signString(payload, a.keypair.privateKey)) ]

\* Faulty variant: the rotation is recorded but the active keypair is kept.
rotateToKeypairKeepingKey(a, h, newKeypair, reason, now) ==
  LET made == createRotation(a.keypair, newKeypair.publicKey, reason, now)
  IN  [ agent |-> a,
        heap  |-> [h EXCEPT ![a.rotations] = Append(@, made)],
        value |-> made ]

rotateToKeypair(a, h, newKeypair, reason, now) ==
  LET made == createRotation(a.keypair, newKeypair.publicKey, reason, now)
  IN  [ agent |-> [a EXCEPT !.keypair = newKeypair],
        heap  |-> [h EXCEPT ![a.rotations] = Append(@, made)],
        value |-> made ]

\* Faulty variant: the identifier is derived again from the active key.
rotateKeyRederivingId(a, h, newKeypair, reason, now) ==
  LET made == createRotation(a.keypair, newKeypair.publicKey, reason, now)
  IN  [ agent |-> [a EXCEPT !.keypair = newKeypair,
                            !.id = Chars(deriveSigilId(newKeypair.publicKey))],
        heap  |-> [h EXCEPT ![a.rotations] = Append(@, made)],
        value |-> [newKeypair |-> newKeypair, rotation |-> made] ]

\* rotateKey(reason), with newKeypair the keypair generateKeypair() returned.
rotateKey(a, h, newKeypair, reason, now) ==
  LET made == createRotation(a.keypair, newKeypair.publicKey, reason, now)
  IN  [ agent |-> [a EXCEPT !.keypair = newKeypair],
        heap  |-> [h EXCEPT ![a.rotations] = Append(@, made)],
        value |-> [newKeypair |-> newKeypair, rotation |-> made] ]

revokeKey(a, h, revokedPublicKey, reason, now) ==
  LET made == createRevocation(a.keypair, revokedPublicKey, reason, now)
  IN  [ agent |-> a,
        heap  |-> [h EXCEPT ![a.revocations] = Append(@, made)],
        value |-> made ]

\* The chain value keyChain() returns, its arrays read at the time of the call.
keyChain(a, h) == buildKeyChain(a.originalPublicKey, h[a.rotations], h[a.revocations])

\* The object keyChain() returns: buildKeyChain stores the arrays it is given,
\* so the two lists of the object are the agent's own arrays (an array-valued
\* field holds the index of its array).
keyChainObject(a, h) ==
  [ buildKeyChain(a.originalPublicKey, h[a.rotations], h[a.revocations])
      EXCEPT !.rotations = a.rotations, !.revocations = a.revocations ]

\* What reading the fields of a KeyChain object gives at present.
ReadChain(c, h) == [c EXCEPT !.rotations = h[c.rotations], !.revocations = h[c.revocations]]

\* Faulty variant: the whole keypair is exported.
toPublicWithKeypair(a) ==
  << <<"id", a.id>>,
     <<"name", a.name>>,
     <<"publicKey", Chars(bytesToHex(a.keypair.publicKey))>>,
     <<"privateKey", Chars(bytesToHex(a.keypair.privateKey))>> >>

toPublic(a) ==
  << <<"id", a.id>>,
     <<"name", a.name>>,
     <<"publicKey", Chars(bytesToHex(a.keypair.publicKey))>> >>

\* Faulty variant: the caller's arrays are kept, not copied.
fromKeyChainSharingArrays(h, keypair, originalPublicKey, rots, options, revs) ==
  LET revocations_ == IF revs = Undefined THEN <<>> ELSE h[revs.ref]
  IN  [ agent |-> SigilAgent(keypair, options, Bytes(originalPublicKey), rots, Len(h) + 1),
        heap  |-> h \o << revocations_ >> ]

\* fromKeyChain(currentKeypair, originalPublicKey, rotations, options,
\* revocations = []): rots is the array the caller passes, and revs is
\* Undefined or holds the array passed.  The arrays of the field
\* initializers are dropped for the two copies.
fromKeyChain(h, keypair, originalPublicKey, rots, options, revs) ==
  LET revocations_ == IF revs = Undefined THEN <<>> ELSE h[revs.ref]
  IN  [ agent |-> SigilAgent(keypair, options, Bytes(originalPublicKey),
                             Len(h) + 1, Len(h) + 2),
        heap  |-> h \o << h[rots], revocations_ >> ]

(***************************************************************************)
(* State                                                                   *)
(***************************************************************************)
VARIABLES
  originalKey,   \* key id of the chain's original keypair
  rotations,     \* rotation statements presented to the verifier, in order
  revocations,   \* revocation statements presented with the chain
  kcResult,      \* result of verifyKeyChain on the present chain, or None
  revResult,     \* last isKeyRevoked query and its answer, or None
  docInput,      \* arguments of the createDocument call, or None
  docOrig,       \* the document as createDocument returned it, or None
  doc,           \* the document as presented to the verifier, or None
  docResult,     \* result of verifyDocument on the presented document, or None
  attInput,      \* arguments of the createAttestation call, or None
  attestation,   \* the attestation as createAttestation returned it, or None
  currentFiles,  \* the candidate file map given to verifyAttestation
  attResult,     \* last verifyAttestation call (key and result), or None
  rotInput,      \* arguments of the createRotation call, or None
  rotation,      \* the rotation statement as presented to verifyRotation, or None
  rotResult,     \* result of verifyRotation on the presented statement, or None
  presented,     \* a KeyChain value as presented to verifyKeyChain, or None
  heap,          \* the arrays allocated so far; an array field holds an index
  agent,         \* the SigilAgent object
  restored,      \* a second SigilAgent of the process (restored or created), or None
  receiptSeq,    \* the module-level receipt counter
  kept,          \* an attestation kept by the caller with the files it attests
  calls,         \* the statements returned by the agent's rotate calls, in order
  ncalls,        \* the number of state-changing calls made on agents so far
  ret,           \* the last agent call and what it returned
  idInput,       \* the public key given to deriveSigilId, or None
  idText,        \* the text presented to publicKeyFromSigilId, or None
  idResult,      \* outcome of publicKeyFromSigilId on the presented text, or None
  held,          \* a KeyChain object a caller got from keyChain() and kept, or None
  issued         \* the receipts issued in this process, in issue order

chainVars == << originalKey, rotations, revocations, kcResult, revResult >>
docVars == << docInput, docOrig, doc, docResult >>
attVars == << attInput, attestation, currentFiles, attResult >>
rotVars == << rotInput, rotation, rotResult >>
presVars == << presented >>
agentVars == << heap, agent, restored, receiptSeq, kept, calls, ncalls, ret >>
idVars == << idInput, idText, idResult >>
callerVars == << held, issued >>
vars == << chainVars, docVars, attVars, rotVars, presVars, agentVars, idVars, callerVars >>

None == [none |-> TRUE]

chain == buildKeyChain(PublicKeyOf(originalKey), rotations, revocations)

HexKeys == { Chars(bytesToHex(pk)) : pk \in PublicKeys }

ChainIdle ==
  /\ originalKey = 1
  /\ rotations = <<>>
  /\ revocations = <<>>
  /\ kcResult = None
  /\ revResult = None

DocIdle ==
  /\ docInput = None
  /\ docOrig = None
  /\ doc = None
  /\ docResult = None

AttIdle ==
  /\ attInput = None
  /\ attestation = None
  /\ currentFiles = <<>>
  /\ attResult = None

RotIdle ==
  /\ rotInput = None
  /\ rotation = None
  /\ rotResult = None

PresIdle == presented = None

AgentIdle ==
  /\ heap = <<>>
  /\ agent = None
  /\ restored = None
  /\ receiptSeq = 0
  /\ kept = None
  /\ calls = <<>>
  /\ ncalls = 0
  /\ ret = None

IdIdle ==
  /\ idInput = None
  /\ idText = None
  /\ idResult = None

CallerIdle ==
  /\ held = None
  /\ issued = <<>>

(***************************************************************************)
(* Key chain scenario: rotation statements are created by the library,     *)
(* possibly altered by whoever presents the chain, and the chain verified. *)
(***************************************************************************)
InitChain ==
  /\ ChainIdle
  /\ DocIdle
  /\ AttIdle
  /\ RotIdle
  /\ PresIdle
  /\ AgentIdle
  /\ IdIdle
  /\ CallerIdle

\* rotations.push(createRotation(old, new.publicKey, reason)); the new key is
\* a freshly generated one, and the clock ticks once per statement.
Rotate(old, new) ==
  /\ Len(rotations) < MaxRot
  /\ new # old
  /\ rotations' = Append(rotations,
                         createRotation(generateKeypair(old), PublicKeyOf(new), "routine",
                                        Len(rotations)))
  /\ kcResult' = None
  /\ UNCHANGED << idVars, callerVars, originalKey, revocations, revResult, docVars, attVars, rotVars, presVars, agentVars >>

\* A field of a presented rotation is overwritten after signing (at most one
\* statement of a chain is altered).
TamperRotation(i, field, value) ==
  /\ i \in 1..Len(rotations)
  /\ Get(rotations[i], field) # value
  /\ \A j \in 1..Len(rotations) : verifyRotation(rotations[j])
  /\ rotations' = [rotations EXCEPT ![i] = Put(@, field, value)]
  /\ kcResult' = None
  /\ UNCHANGED << idVars, callerVars, originalKey, revocations, revResult, docVars, attVars, rotVars, presVars, agentVars >>

VerifyKeyChain ==
  /\ kcResult = None
  /\ kcResult' = verifyKeyChain(chain)
  /\ UNCHANGED << idVars, callerVars, originalKey, rotations, revocations, revResult, docVars, attVars, rotVars, presVars, agentVars >>

NextChain ==
  \/ \E old, new \in KeyIds : Rotate(old, new)
  \/ \E i \in 1..MaxRot, value \in HexKeys : TamperRotation(i, "previousKey", value)
  \/ \E i \in 1..MaxRot, value \in HexKeys : TamperRotation(i, "newKey", value)
  \/ \E i \in 1..MaxRot : TamperRotation(i, "reason", Str("compromised"))
  \/ VerifyKeyChain

SpecChain == InitChain /\ [][NextChain]_vars

(***************************************************************************)
(* Rotation statement scenario: createRotation makes one statement,        *)
(* whoever presents it may overwrite a field or replace the proof by a     *)
(* signature of their own over the statement, and verifyRotation judges    *)
(* what is presented.                                                      *)
(***************************************************************************)
Reasons == << "routine", "compromised", "upgrade" >>

InitRotation ==
  /\ ChainIdle
  /\ DocIdle
  /\ AttIdle
  /\ RotIdle
  /\ PresIdle
  /\ AgentIdle
  /\ IdIdle
  /\ CallerIdle

\* rotation = createRotation(oldKeypair, newKeypair.publicKey, reason)
CreateRotation(old, new, reason, now) ==
  /\ rotation = None
  /\ LET made == createRotation(generateKeypair(old), PublicKeyOf(new), reason, now)
     IN  /\ rotInput' = [old |-> old, new |-> new, made |-> made]
         /\ rotation' = made
  /\ rotResult' = None
  /\ UNCHANGED << idVars, callerVars, chainVars, docVars, attVars, presVars, agentVars >>

\* rotation.<field> = value, after signing
TamperStatement(field, value) ==
  /\ rotation # None
  /\ rotation = rotInput.made
  /\ Get(rotation, field) # value
  /\ rotation' = Put(rotation, field, value)
  /\ rotResult' = None
  /\ UNCHANGED << idVars, callerVars, rotInput, chainVars, docVars, attVars, presVars, agentVars >>

\* The proof is replaced by the signature of a keypair that previousKey does
\* not name, made over the statement as it stands.
ResignStatement(k) ==
  /\ rotation # None
  /\ PublicKeyOf(k) # hexToBytes(Get(rotation, "previousKey").c)
  /\ LET body == Omit(rotation, {"proof"})
         canonical == JSONStringifyWith(body, Sort(ObjectKeys(body)))
         proof == signString(canonical, generateKeypair(k).privateKey)
     IN  /\ Get(rotation, "proof") # proof
         /\ rotation' = Put(rotation, "proof", proof)
  /\ rotResult' = None
  /\ UNCHANGED << idVars, callerVars, rotInput, chainVars, docVars, attVars, presVars, agentVars >>

VerifyRotation ==
  /\ rotation # None
  /\ rotResult = None
  /\ rotResult' = [value |-> verifyRotation(rotation)]
  /\ UNCHANGED << idVars, callerVars, rotInput, rotation, chainVars, docVars, attVars, presVars, agentVars >>

NextRotation ==
  \/ \E old, new \in KeyIds, now \in Times : CreateRotation(old, new, Reasons[1], now)
  \/ \E value \in HexKeys : TamperStatement("previousKey", value)
  \/ TamperStatement("previousKey", Chars(ToUpperHex(Get(rotation, "previousKey").c)))
  \/ \E value \in HexKeys : TamperStatement("newKey", value)
  \/ \E k \in KeyIds : TamperStatement("sigilId", Chars(deriveSigilId(PublicKeyOf(k))))
  \/ TamperStatement("rotatedAt", Time(MaxTime + 1))
  \/ \E n \in 2..Len(Reasons) : TamperStatement("reason", Str(Reasons[n]))
  \/ \E k \in KeyIds : ResignStatement(k)
  \/ VerifyRotation

SpecRotation == InitRotation /\ [][NextRotation]_vars

(***************************************************************************)
(* Presented chain scenario: a KeyChain value is built by buildKeyChain    *)
(* from library-made rotations, whoever presents it may overwrite its      *)
(* currentKey field, and verifyKeyChain judges the value presented.        *)
(***************************************************************************)
InitStated ==
  /\ ChainIdle
  /\ DocIdle
  /\ AttIdle
  /\ RotIdle
  /\ PresIdle
  /\ AgentIdle
  /\ IdIdle
  /\ CallerIdle

\* presented = buildKeyChain(originalPublicKey, rotations, revocations)
BuildKeyChain ==
  /\ presented = None
  /\ presented' = chain
  /\ kcResult' = None
  /\ UNCHANGED << idVars, callerVars, originalKey, rotations, revocations, revResult, docVars, attVars, rotVars,
                  agentVars >>

\* presented.currentKey = value
OverwriteCurrentKey(value) ==
  /\ presented # None
  /\ presented = chain
  /\ presented.currentKey # value
  /\ presented' = [presented EXCEPT !.currentKey = value]
  /\ kcResult' = None
  /\ UNCHANGED << idVars, callerVars, originalKey, rotations, revocations, revResult, docVars, attVars, rotVars,
                  agentVars >>

VerifyPresented ==
  /\ presented # None
  /\ kcResult = None
  /\ kcResult' = verifyKeyChain(presented)
  /\ UNCHANGED << idVars, callerVars, originalKey, rotations, revocations, revResult, presented, docVars,
                  attVars, rotVars, agentVars >>

NextStated ==
  \/ \E old, new \in KeyIds : presented = None /\ Rotate(old, new)
  \/ BuildKeyChain
  \/ \E value \in HexKeys : OverwriteCurrentKey(value)
  \/ VerifyPresented

SpecStated == InitStated /\ [][NextStated]_vars

(***************************************************************************)
(* Revocation scenario: revocation entries reach the chain from the        *)
(* library or from a party holding no key, and isKeyRevoked is queried.    *)
(***************************************************************************)
InitRevoke ==
  /\ originalKey \in KeyIds
  /\ rotations = <<>>
  /\ revocations = <<>>
  /\ kcResult = None
  /\ revResult = None
  /\ DocIdle
  /\ AttIdle
  /\ RotIdle
  /\ PresIdle
  /\ AgentIdle
  /\ IdIdle
  /\ CallerIdle

\* revocations.push(createRevocation(signer, revoked.publicKey, reason))
Revoke(signer, revoked, now) ==
  /\ Len(revocations) < MaxRev
  /\ revocations' = Append(revocations,
                           createRevocation(generateKeypair(signer), PublicKeyOf(revoked),
                                            "compromised", now))
  /\ revResult' = None
  /\ UNCHANGED << idVars, callerVars, originalKey, rotations, kcResult, docVars, attVars, rotVars, presVars, agentVars >>

\* A party that holds no private key puts a revocation entry into the chain
\* it presents; the entry may carry the validated property.
InjectRevocation(revoked, flagged, now) ==
  /\ Len(revocations) < MaxRev
  /\ LET entry == << <<"type", Str("key-revocation")>>,
                     <<"revokedKey", Chars(bytesToHex(PublicKeyOf(revoked)))>>,
                     <<"sigilId", Chars(deriveSigilId(PublicKeyOf(originalKey)))>>,
                     <<"revokedAt", Time(now)>>,
                     <<"reason", Str("compromised")>>,
                     <<"proof", ForgedProof>> >>
     IN  revocations' = Append(revocations,
                               IF flagged THEN Put(entry, "validated", Bool(TRUE)) ELSE entry)
  /\ revResult' = None
  /\ UNCHANGED << idVars, callerVars, originalKey, rotations, kcResult, docVars, attVars, rotVars, presVars, agentVars >>

\* The caller protocol of the isKeyRevoked documentation: check the proof
\* against the key held to carry authority, then mark the entry.
MarkValidated(i, authority) ==
  /\ i \in 1..Len(revocations)
  /\ ~Has(revocations[i], "validated")
  /\ verifyRevocation(revocations[i], PublicKeyOf(authority))
  /\ revocations' = [revocations EXCEPT ![i] = Put(@, "validated", Bool(TRUE))]
  /\ revResult' = None
  /\ UNCHANGED << idVars, callerVars, originalKey, rotations, kcResult, docVars, attVars, rotVars, presVars, agentVars >>

IsKeyRevoked(k) ==
  /\ revResult' = [key |-> Chars(bytesToHex(PublicKeyOf(k))),
                   revoked |-> isKeyRevoked(chain, Chars(bytesToHex(PublicKeyOf(k))))]
  /\ revResult' # revResult
  /\ UNCHANGED << idVars, callerVars, originalKey, rotations, revocations, kcResult, docVars, attVars, rotVars, presVars, agentVars >>

NextRevoke ==
  \/ \E signer, revoked \in KeyIds, now \in Times : Revoke(signer, revoked, now)
  \/ \E revoked \in KeyIds, flagged \in BOOLEAN, now \in Times :
       InjectRevocation(revoked, flagged, now)
  \/ \E i \in 1..MaxRev, authority \in KeyIds : MarkValidated(i, authority)
  \/ \E k \in KeyIds : IsKeyRevoked(k)

SpecRevoke == InitRevoke /\ [][NextRevoke]_vars

(***************************************************************************)
(* Document scenario: createDocument makes a document, whoever presents it *)
(* may overwrite one field, and verifyDocument judges what is presented.   *)
(***************************************************************************)
SoulFile == << <<"SOUL.md", Str("A")>> >>

OptionChoices ==
  << << <<"name", Str("Agent")>> >>,
     << <<"name", Str("Agent")>>,
        <<"framework", Str("clawdbot")>>,
        <<"version", Str("1.0.0")>> >>,
     << <<"name", Str("Agent")>>,
        <<"capabilities", Arr(<<Str("chat")>>)>>,
        <<"endpoints", Obj(<< <<"a2a", Str("https://agent.example/sigil")>> >>)>> >>,
     << <<"name", Str("Agent")>>,
        <<"framework", Str("clawdbot")>>,
        <<"version", Str("1.0.0")>>,
        <<"capabilities", Arr(<<Str("chat")>>)>>,
        <<"endpoints", Obj(<< <<"a2a", Str("https://agent.example/sigil")>> >>)>> >> >>

OwnerClaim == Obj(<< <<"claim", Str("sigil-claim:xyz")>>, <<"method", Str("dns")>> >>)

\* Values an altered field is given; none of them is a value createDocument
\* put there.
TamperCases ==
  << [path |-> <<"name">>, value |-> Str("Impostor")],
     [path |-> <<"framework">>, value |-> Str("other")],
     [path |-> <<"version">>, value |-> Str("9.9.9")],
     [path |-> <<"created">>, value |-> Time(MaxTime + 1)],
     [path |-> <<"capabilities">>, value |-> Arr(<<Str("chat"), Str("admin"), Str("root")>>)],
     [path |-> <<"endpoints", "a2a">>, value |-> Str("https://evil.example")],
     [path |-> <<"owner", "claim">>, value |-> Str("sigil-claim:evil")],
     [path |-> <<"owner", "method">>, value |-> Str("social")],
     [path |-> <<"integrity", "soulHash">>,
      value |-> computeSoulHash(<< <<"SOUL.md", Str("B")>> >>)],
     [path |-> <<"integrity", "files">>, value |-> FileNameList(<<"AGENTS.md">>)],
     [path |-> <<"integrity", "attestedAt">>, value |-> Time(MaxTime + 1)],
     [path |-> <<"integrity", "signature">>, value |-> ForgedProof] >>

HasPath(obj, path) ==
  IF Len(path) = 1 THEN Has(obj, path[1])
  ELSE Has(obj, path[1]) /\ Has(Get(obj, path[1]).o, path[2])

GetPath(obj, path) ==
  IF Len(path) = 1 THEN Get(obj, path[1])
  ELSE Get(Get(obj, path[1]).o, path[2])

PutPath(obj, path, value) ==
  IF Len(path) = 1 THEN Put(obj, path[1], value)
  ELSE Put(obj, path[1], Obj(Put(Get(obj, path[1]).o, path[2], value)))

InitDoc ==
  /\ ChainIdle
  /\ DocIdle
  /\ AttIdle
  /\ RotIdle
  /\ PresIdle
  /\ AgentIdle
  /\ IdIdle
  /\ CallerIdle

\* doc = createDocument(keypair, options, attestation?, owner?)
CreateDocument(k, o, withIntegrity, withOwner, now, proofNow) ==
  /\ doc = None
  /\ now <= proofNow
  /\ LET keypair == generateKeypair(k)
         integrity == IF withIntegrity
                      THEN Obj(createAttestation(SoulFile, keypair.privateKey, now))
                      ELSE Undefined
         owner == IF withOwner THEN OwnerClaim ELSE Undefined
         made == createDocument(keypair, OptionChoices[o], integrity, owner, now, proofNow)
     IN  /\ docInput' = [key |-> k, options |-> OptionChoices[o],
                         integrity |-> integrity, owner |-> owner]
         /\ docOrig' = made
         /\ doc' = made
  /\ docResult' = None
  /\ UNCHANGED << idVars, callerVars, chainVars, attVars, rotVars, presVars, agentVars >>

\* doc.<path> = value, after signing
TamperDocument(n) ==
  /\ doc # None
  /\ doc = docOrig
  /\ HasPath(doc, TamperCases[n].path)
  /\ GetPath(doc, TamperCases[n].path) # TamperCases[n].value
  /\ doc' = PutPath(doc, TamperCases[n].path, TamperCases[n].value)
  /\ docResult' = None
  /\ UNCHANGED << idVars, callerVars, docInput, docOrig, chainVars, attVars, rotVars, presVars, agentVars >>

\* doc.id = deriveSigilId(other.publicKey)
SubstituteId(k) ==
  /\ doc # None
  /\ doc = docOrig
  /\ Get(doc, "id") # Chars(deriveSigilId(PublicKeyOf(k)))
  /\ doc' = Put(doc, "id", Chars(deriveSigilId(PublicKeyOf(k))))
  /\ docResult' = None
  /\ UNCHANGED << idVars, callerVars, docInput, docOrig, chainVars, attVars, rotVars, presVars, agentVars >>

\* Identifiers that publicKeyFromSigilId does not accept: the prefix is
\* missing, or the text after it holds a character outside the base58
\* alphabet.
MalformedIds(id) ==
  << SubSeq(id, Len(SIGIL_PREFIX) + 1, Len(id)),
     << "d", "i", "d", ":" >> \o SubSeq(id, Len(SIGIL_PREFIX) + 1, Len(id)),
     id \o << "0" >>,
     SIGIL_PREFIX \o << "O", "I", "l" >> >>

\* doc.id = <a malformed identifier>
MalformId(n) ==
  /\ doc # None
  /\ doc = docOrig
  /\ doc' = Put(doc, "id", Chars(MalformedIds(Get(doc, "id").c)[n]))
  /\ docResult' = None
  /\ UNCHANGED << idVars, callerVars, docInput, docOrig, chainVars, attVars, rotVars, presVars, agentVars >>

\* doc.proof.proofValue = '0OIl', a text that is not base58
MalformProof ==
  /\ doc # None
  /\ doc = docOrig
  /\ doc' = PutPath(doc, << "proof", "proofValue" >>, Str("0OIl"))
  /\ docResult' = None
  /\ UNCHANGED << idVars, callerVars, docInput, docOrig, chainVars, attVars, rotVars, presVars, agentVars >>

\* The call verifyDocument(doc): threw tells whether it ended in an exception,
\* and value is then FALSE (nothing was returned).
VerifyDocument ==
  /\ doc # None
  /\ docResult = None
  /\ docResult' = [value |-> verifyDocument(doc), threw |-> verifyDocumentThrows(doc)]
  /\ UNCHANGED << idVars, callerVars, docInput, docOrig, doc, chainVars, attVars, rotVars, presVars, agentVars >>

NextDoc ==
  \/ \E k \in KeyIds, o \in 1..Len(OptionChoices), withIntegrity, withOwner \in BOOLEAN,
        now, proofNow \in Times :
       CreateDocument(k, o, withIntegrity, withOwner, now, proofNow)
  \/ \E n \in 1..Len(TamperCases) : TamperDocument(n)
  \/ \E k \in KeyIds : SubstituteId(k)
  \/ \E n \in 1..4 : MalformId(n)
  \/ MalformProof
  \/ VerifyDocument

SpecDoc == InitDoc /\ [][NextDoc]_vars

(***************************************************************************)
(* Attestation scenario: files are attested, the candidate file map is     *)
(* rewritten or rebuilt in another insertion order, and the attestation is *)
(* verified against it under some public key.                              *)
(***************************************************************************)
FileNames == { "SOUL.md", "AGENTS.md", "TOOLS.md" }
Contents == { "A", "B" }

\* File maps of up to MaxFiles files, in every insertion order.
FileMaps ==
  UNION { { [i \in 1..n |-> <<names[i], Str(texts[i])>>] :
              names \in { f \in [1..n -> FileNames] :
                            \A i, j \in 1..n : i # j => f[i] # f[j] },
              texts \in [1..n -> Contents] } :
          n \in 1..MaxFiles }

InitAttest ==
  /\ ChainIdle
  /\ DocIdle
  /\ AttIdle
  /\ RotIdle
  /\ PresIdle
  /\ AgentIdle
  /\ IdIdle
  /\ CallerIdle

\* attestation = createAttestation(files, keypair.privateKey)
Attest(files, k, now) ==
  /\ attestation = None
  /\ attInput' = [files |-> files, key |-> k, now |-> now]
  /\ attestation' = createAttestation(files, generateKeypair(k).privateKey, now)
  /\ currentFiles' = files
  /\ attResult' = None
  /\ UNCHANGED << idVars, callerVars, chainVars, docVars, rotVars, presVars, agentVars >>

\* The content of one candidate file is rewritten.
AlterFile(i, text) ==
  /\ attestation # None
  /\ i \in 1..Len(currentFiles)
  /\ currentFiles[i][2] # Str(text)
  /\ currentFiles' = [currentFiles EXCEPT ![i] = <<@[1], Str(text)>>]
  /\ attResult' = None
  /\ UNCHANGED << idVars, callerVars, attInput, attestation, chainVars, docVars, rotVars, presVars, agentVars >>

\* The candidate map is rebuilt with two neighbouring files inserted in the
\* opposite order.
ReorderFiles(i) ==
  /\ attestation # None
  /\ i \in 1..(Len(currentFiles) - 1)
  /\ currentFiles' = [currentFiles EXCEPT ![i] = currentFiles[i + 1],
                                          ![i + 1] = currentFiles[i]]
  /\ attResult' = None
  /\ UNCHANGED << idVars, callerVars, attInput, attestation, chainVars, docVars, rotVars, presVars, agentVars >>

VerifyAttestation(k) ==
  /\ attestation # None
  /\ attResult' = [key |-> k,
                   result |-> verifyAttestation(attestation, currentFiles, PublicKeyOf(k))]
  /\ attResult' # attResult
  /\ UNCHANGED << idVars, callerVars, attInput, attestation, currentFiles, chainVars, docVars, rotVars, presVars, agentVars >>

NextAttest ==
  \/ \E files \in FileMaps, k \in KeyIds, now \in Times : Attest(files, k, now)
  \/ \E i \in 1..MaxFiles, text \in Contents : AlterFile(i, text)
  \/ \E i \in 1..MaxFiles : ReorderFiles(i)
  \/ \E k \in KeyIds : VerifyAttestation(k)

SpecAttest == InitAttest /\ [][NextAttest]_vars

(***************************************************************************)
(* Agent scenario: one SigilAgent is created and used through its public   *)
(* methods; its key chain is queried with isKeyRevoked and an attestation  *)
(* it returned is checked later with verifyIntegrity.                      *)
(***************************************************************************)
AgentOptions == OptionChoices[4]

AgentFiles ==
  << << <<"SOUL.md", Str("A")>> >>,
     << <<"SOUL.md", Str("A")>>, <<"AGENTS.md", Str("B")>> >> >>

ReceiptContexts == << Undefined, Str(""), Str("Reviewed PR 42") >>

\* new Date(): the clock ticks with every rotation.
Clock(a, h) == Len(h[a.rotations])

\* The public keys an agent holds or has held.
KnownKeys(a, h) ==
  { a.originalPublicKey, a.keypair.publicKey }
    \cup { hexToBytes(Get(h[a.rotations][i], "newKey").c) : i \in 1..Len(h[a.rotations]) }

\* The public keys generated so far, by either agent.
GeneratedKeys ==
  KnownKeys(agent, heap) \cup (IF restored = None THEN {} ELSE KnownKeys(restored, heap))

InitAgent ==
  /\ ChainIdle
  /\ DocIdle
  /\ AttIdle
  /\ RotIdle
  /\ PresIdle
  /\ IdIdle
  /\ CallerIdle
  /\ LET made == fromKeypair(<<>>, generateKeypair(1), AgentOptions)
     IN  /\ agent = made.agent
         /\ heap = made.heap
  /\ restored = None
  /\ receiptSeq = 0
  /\ kept = None
  /\ calls = <<>>
  /\ ncalls = 0
  /\ ret = [op |-> "create"]

\* agent.rotateKey(reason); generateKeypair() returns a key not seen before
\* (the first unused one: fresh keys are interchangeable).
RotateKey(k, reason) ==
  /\ ncalls < MaxCalls
  /\ ncalls' = ncalls + 1
  /\ Len(heap[agent.rotations]) < MaxRot
  /\ PublicKeyOf(k) \notin GeneratedKeys
  /\ \A j \in 1..(k - 1) : PublicKeyOf(j) \in GeneratedKeys
  /\ LET r == rotateKey(agent, heap, generateKeypair(k), reason, Clock(agent, heap))
     IN  /\ agent' = r.agent
         /\ heap' = r.heap
         /\ calls' = Append(calls, r.value.rotation)
         /\ ret' = [op |-> "rotateKey", returned |-> r.value]
  /\ UNCHANGED << idVars, callerVars, restored, receiptSeq, kept, chainVars, docVars, attVars, rotVars, presVars >>

\* agent.rotateToKeypair(keypair, reason) with a keypair restored from a
\* backup, the active one included (a new keypair acts as in RotateKey).
RotateToKeypair(k, reason) ==
  /\ ncalls < MaxCalls
  /\ ncalls' = ncalls + 1
  /\ Len(heap[agent.rotations]) < MaxRot
  /\ PublicKeyOf(k) \in KnownKeys(agent, heap)
  /\ LET r == rotateToKeypair(agent, heap, generateKeypair(k), reason, Clock(agent, heap))
     IN  /\ agent' = r.agent
         /\ heap' = r.heap
         /\ calls' = Append(calls, r.value)
         /\ ret' = [op |-> "rotateToKeypair", rotation |-> r.value]
  /\ UNCHANGED << idVars, callerVars, restored, receiptSeq, kept, chainVars, docVars, attVars, rotVars, presVars >>

\* agent.revokeKey(publicKey, reason)
RevokeKey(k) ==
  /\ ncalls < MaxCalls
  /\ ncalls' = ncalls + 1
  /\ Len(heap[agent.revocations]) < MaxRev
  /\ PublicKeyOf(k) \in KnownKeys(agent, heap)
  /\ LET r == revokeKey(agent, heap, PublicKeyOf(k), "key leaked", Clock(agent, heap))
     IN  /\ agent' = r.agent
         /\ heap' = r.heap
         /\ ret' = [op |-> "revokeKey", revocation |-> r.value]
  /\ UNCHANGED << idVars, callerVars, restored, receiptSeq, kept, calls, chainVars, docVars, attVars, rotVars,
                  presVars >>

\* attestation = agent.attestIntegrity(files); the caller keeps it.
AttestIntegrity(n) ==
  /\ ncalls < MaxCalls
  /\ ncalls' = ncalls + 1
  /\ LET r == attestIntegrity(agent, AgentFiles[n], Clock(agent, heap))
     IN  /\ agent' = r.agent
         /\ kept' = [attestation |-> r.value, files |-> AgentFiles[n]]
         /\ ret' = [op |-> "attestIntegrity", attestation |-> r.value]
  /\ UNCHANGED << idVars, callerVars, heap, restored, receiptSeq, calls, chainVars, docVars, attVars, rotVars,
                  presVars >>

\* agent.document(owner?)
Document(withOwner) ==
  /\ ncalls < MaxCalls
  /\ ncalls' = ncalls + 1
  /\ LET r == document(agent, IF withOwner THEN OwnerClaim ELSE Undefined,
                       Clock(agent, heap), Clock(agent, heap))
     IN  /\ agent' = r.agent
         /\ ret' = [op |-> "document", doc |-> r.value]
  /\ UNCHANGED << idVars, callerVars, heap, restored, receiptSeq, kept, calls, chainVars, docVars, attVars,
                  rotVars, presVars >>

\* agent.issueReceipt({to, action, quality, context?})
IssueReceipt(to, c, now) ==
  /\ ncalls < MaxCalls
  /\ ncalls' = ncalls + 1
  /\ LET params == << <<"to", Chars(deriveSigilId(PublicKeyOf(to)))>>,
                      <<"action", Str("code-review")>>,
                      <<"quality", Str("positive")>> >>
                   \o (IF ReceiptContexts[c] = Undefined THEN <<>>
                       ELSE << <<"context", ReceiptContexts[c]>> >>)
         r == issueReceipt(agent, receiptSeq, params, now)
     IN  /\ receiptSeq' = r.receiptSeq
         /\ ret' = [op |-> "issueReceipt", params |-> params, receipt |-> r.value]
  /\ UNCHANGED << idVars, callerVars, heap, agent, restored, kept, calls, chainVars, docVars, attVars, rotVars,
                  presVars >>

\* agent.verifyIntegrity(attestation, files) on the kept attestation and the
\* attested files, unchanged.
VerifyIntegrity ==
  /\ UNCHANGED ncalls
  /\ kept # None
  /\ ret' = [op |-> "verifyIntegrity",
             result |-> verifyIntegrity(agent, kept.attestation, kept.files)]
  /\ ret' # ret
  /\ UNCHANGED << idVars, callerVars, heap, agent, restored, receiptSeq, kept, calls, chainVars, docVars,
                  attVars, rotVars, presVars >>

\* isKeyRevoked(agent.keyChain(), hex(publicKey))
AgentIsKeyRevoked(k) ==
  /\ UNCHANGED ncalls
  /\ ret' = [op |-> "isKeyRevoked", key |-> Chars(bytesToHex(PublicKeyOf(k))),
             revoked |-> isKeyRevoked(keyChain(agent, heap),
                                      Chars(bytesToHex(PublicKeyOf(k))))]
  /\ ret' # ret
  /\ UNCHANGED << idVars, callerVars, heap, agent, restored, receiptSeq, kept, calls, chainVars, docVars,
                  attVars, rotVars, presVars >>

\* agent.toPublic()
ToPublic ==
  /\ UNCHANGED ncalls
  /\ ret' = [op |-> "toPublic", exported |-> toPublic(agent)]
  /\ ret' # ret
  /\ UNCHANGED << idVars, callerVars, heap, agent, restored, receiptSeq, kept, calls, chainVars,
                  docVars, attVars, rotVars, presVars >>

\* agent.keyChain(), read at once
KeyChain ==
  /\ UNCHANGED ncalls
  /\ ret' = [op |-> "keyChain", chain |-> keyChain(agent, heap)]
  /\ ret' # ret
  /\ UNCHANGED << idVars, callerVars, heap, agent, restored, receiptSeq, kept, calls, chainVars,
                  docVars, attVars, rotVars, presVars >>

NextAgent ==
  \/ \E k \in KeyIds : RotateKey(k, "routine")
  \/ \E k \in KeyIds : RotateToKeypair(k, "compromised")
  \/ \E k \in KeyIds : RevokeKey(k)
  \/ \E n \in 1..Len(AgentFiles) : AttestIntegrity(n)
  \/ \E withOwner \in BOOLEAN : Document(withOwner)
  \/ \E to \in KeyIds, c \in 1..Len(ReceiptContexts), now \in Times : IssueReceipt(to, c, now)
  \/ VerifyIntegrity
  \/ \E k \in KeyIds : AgentIsKeyRevoked(k)
  \/ ToPublic
  \/ KeyChain

SpecAgent == InitAgent /\ [][NextAgent]_vars

(***************************************************************************)
(* Restore scenario: a live agent rotates and revokes, a second agent is   *)
(* restored with fromKeyChain from the live agent's keypair, original key  *)
(* and arrays, and both go on rotating.                                    *)
(***************************************************************************)
InitRestore == InitAgent

\* restored = SigilAgent.fromKeyChain(agent.keypair, originalPublicKey,
\*   agent.keyChain().rotations, options[, agent.keyChain().revocations])
Restore(withRevocations) ==
  /\ restored = None
  /\ ncalls < MaxCalls
  /\ ncalls' = ncalls + 1
  /\ LET r == fromKeyChain(heap, agent.keypair, agent.originalPublicKey, agent.rotations,
                           agent.options,
                           IF withRevocations THEN [ref |-> agent.revocations]
                           ELSE Undefined)
     IN  /\ restored' = r.agent
         /\ heap' = r.heap
  /\ ret' = [op |-> "fromKeyChain"]
  /\ UNCHANGED << idVars, callerVars, agent, receiptSeq, kept, calls, chainVars, docVars, attVars, rotVars,
                  presVars >>

\* restored.rotateKey(reason)
RestoredRotateKey(k, reason) ==
  /\ restored # None
  /\ ncalls < MaxCalls
  /\ ncalls' = ncalls + 1
  /\ Len(heap[restored.rotations]) < MaxRot
  /\ PublicKeyOf(k) \notin GeneratedKeys
  /\ \A j \in 1..(k - 1) : PublicKeyOf(j) \in GeneratedKeys
  /\ LET r == rotateKey(restored, heap, generateKeypair(k), reason,
                        Clock(restored, heap))
     IN  /\ restored' = r.agent
         /\ heap' = r.heap
         /\ ret' = [op |-> "restored.rotateKey", returned |-> r.value]
  /\ UNCHANGED << idVars, callerVars, agent, receiptSeq, kept, calls, chainVars, docVars, attVars, rotVars,
                  presVars >>

\* restored.rotateToKeypair(keypair, reason)
RestoredRotateToKeypair(k, reason) ==
  /\ restored # None
  /\ ncalls < MaxCalls
  /\ ncalls' = ncalls + 1
  /\ Len(heap[restored.rotations]) < MaxRot
  /\ PublicKeyOf(k) \in KnownKeys(restored, heap)
  /\ LET r == rotateToKeypair(restored, heap, generateKeypair(k), reason,
                              Clock(restored, heap))
     IN  /\ restored' = r.agent
         /\ heap' = r.heap
         /\ ret' = [op |-> "restored.rotateToKeypair", rotation |-> r.value]
  /\ UNCHANGED << idVars, callerVars, agent, receiptSeq, kept, calls, chainVars, docVars, attVars, rotVars,
                  presVars >>

NextRestore ==
  \/ \E k \in KeyIds : RotateKey(k, "routine")
  \/ \E k \in KeyIds : RotateToKeypair(k, "compromised")
  \/ \E k \in KeyIds : RevokeKey(k)
  \/ \E withRevocations \in BOOLEAN : Restore(withRevocations)
  \/ \E k \in KeyIds : RestoredRotateKey(k, "upgrade")
  \/ \E k \in KeyIds : RestoredRotateToKeypair(k, "compromised")

SpecRestore == InitRestore /\ [][NextRestore]_vars

(***************************************************************************)
(* Shared chain scenario: a caller keeps the object that keyChain()        *)
(* returned while the agent goes on rotating and revoking, and the caller  *)
(* may push a statement onto the rotations list of the object it holds.    *)
(***************************************************************************)
InitShare == InitAgent

\* held = agent.keyChain(); asReturned is what its fields read at that time.
KeepKeyChain ==
  /\ held = None
  /\ held' = [chain |-> keyChainObject(agent, heap), asReturned |-> keyChain(agent, heap)]
  /\ ret' = [op |-> "keyChain", chain |-> keyChain(agent, heap)]
  /\ UNCHANGED << idVars, issued, heap, agent, restored, receiptSeq, kept, calls, ncalls,
                  chainVars, docVars, attVars, rotVars, presVars >>

\* held.rotations.push(createRotation(keypair, other.publicKey)), a statement
\* the caller made with a keypair of its own.
CallerPush(k, new) ==
  /\ held # None
  /\ ncalls < MaxCalls
  /\ ncalls' = ncalls + 1
  /\ Len(heap[held.chain.rotations]) < MaxRot
  /\ heap' = [heap EXCEPT ![held.chain.rotations] =
                Append(@, createRotation(generateKeypair(k), PublicKeyOf(new), "routine",
                                         Len(heap[held.chain.rotations])))]
  /\ ret' = [op |-> "push"]
  /\ UNCHANGED << idVars, callerVars, agent, restored, receiptSeq, kept, calls, chainVars,
                  docVars, attVars, rotVars, presVars >>

NextShare ==
  \/ \E k \in KeyIds : RotateKey(k, "routine")
  \/ \E k \in KeyIds : RotateToKeypair(k, "compromised")
  \/ \E k \in KeyIds : RevokeKey(k)
  \/ KeepKeyChain
  \/ \E k, new \in KeyIds : CallerPush(k, new)

SpecShare == InitShare /\ [][NextShare]_vars

(***************************************************************************)
(* Receipt scenario: two SigilAgent instances of one process issue         *)
(* receipts in any interleaving; the module-level counter is shared.       *)
(***************************************************************************)
\* Values of Date.now(); the clock may stand still between two calls and an
\* adjusted clock may go back.
ReceiptTimes == 0..(MaxTime + 1)

InitReceipts == InitAgent

\* restored = SigilAgent.create(options): a second instance with a keypair
\* of its own.
CreateSecond ==
  /\ restored = None
  /\ ncalls < MaxCalls
  /\ ncalls' = ncalls + 1
  /\ LET made == fromKeypair(heap, generateKeypair(2), AgentOptions)
     IN  /\ restored' = made.agent
         /\ heap' = made.heap
  /\ ret' = [op |-> "create"]
  /\ UNCHANGED << idVars, callerVars, agent, receiptSeq, kept, calls, chainVars, docVars,
                  attVars, rotVars, presVars >>

\* issuer.issueReceipt({to, action, quality}) by either instance, addressed
\* to the first agent; the receipt joins those issued so far.
IssueBy(second, now) ==
  /\ second => restored # None
  /\ ncalls < MaxCalls
  /\ ncalls' = ncalls + 1
  /\ LET issuer == IF second THEN restored ELSE agent
         params == << <<"to", agent.id>>,
                      <<"action", Str("code-review")>>,
                      <<"quality", Str("positive")>> >>
         r == issueReceipt(issuer, receiptSeq, params, now)
     IN  /\ receiptSeq' = r.receiptSeq
         /\ issued' = Append(issued, r.value)
         /\ ret' = [op |-> "issueReceipt", params |-> params, receipt |-> r.value]
  /\ UNCHANGED << idVars, held, heap, agent, restored, kept, calls, chainVars, docVars,
                  attVars, rotVars, presVars >>

NextReceipts ==
  \/ CreateSecond
  \/ \E second \in BOOLEAN, now \in ReceiptTimes : IssueBy(second, now)

SpecReceipts == InitReceipts /\ [][NextReceipts]_vars

(***************************************************************************)
(* Broken chain scenario: a chain is put together from library-made        *)
(* rotations, continuous or not, one of which may be altered after         *)
(* signing; it is presented with or without a revocation and with its      *)
(* currentKey as built or overwritten, and verifyKeyChain judges it.       *)
(***************************************************************************)
InitBroken ==
  /\ ChainIdle
  /\ DocIdle
  /\ AttIdle
  /\ RotIdle
  /\ PresIdle
  /\ AgentIdle
  /\ IdIdle
  /\ CallerIdle

\* Any key may sign as the outgoing key; the incoming key is the one
\* generated after it.
NextBroken ==
  \/ \E old \in KeyIds : presented = None /\ Rotate(old, (old % NumKeys) + 1)
  \/ \E i \in 1..MaxRot, value \in HexKeys :
       presented = None /\ TamperRotation(i, "previousKey", value)
  \/ \E i \in 1..MaxRot : presented = None /\ TamperRotation(i, "reason", Str("compromised"))
  \/ presented = None /\ revocations = <<>> /\ Revoke(1, 1, 0)
  \/ BuildKeyChain
  \/ \E value \in HexKeys : OverwriteCurrentKey(value)
  \/ VerifyPresented

SpecBroken == InitBroken /\ [][NextBroken]_vars

(***************************************************************************)
(* Forgery scenario: files are attested; someone without the signer's      *)
(* private key rewrites or renames the files, then overwrites fields of    *)
(* the attestation to fit them and may sign the result with a key of their *)
(* own; verifyAttestation judges what is presented.                        *)
(***************************************************************************)
InitForge ==
  /\ ChainIdle
  /\ DocIdle
  /\ AttIdle
  /\ RotIdle
  /\ PresIdle
  /\ AgentIdle
  /\ IdIdle
  /\ CallerIdle

\* The attestation as createAttestation returned it.
Attested ==
  createAttestation(attInput.files, generateKeypair(attInput.key).privateKey, attInput.now)

\* A candidate file is given another name, its content kept.
RenameFile(i, name) ==
  /\ attestation # None
  /\ i \in 1..Len(currentFiles)
  /\ ~Has(currentFiles, name)
  /\ currentFiles' = [currentFiles EXCEPT ![i] = <<name, @[2]>>]
  /\ attResult' = None
  /\ UNCHANGED << idVars, callerVars, attInput, attestation, chainVars, docVars, rotVars,
                  presVars, agentVars >>

\* attestation.<field> = value, after signing
TamperAttestation(field, value) ==
  /\ attestation # None
  /\ Get(attestation, field) = Get(Attested, field)
  /\ Get(attestation, "signature") = Get(Attested, "signature")
  /\ Get(attestation, field) # value
  /\ attestation' = Put(attestation, field, value)
  /\ attResult' = None
  /\ UNCHANGED << idVars, callerVars, attInput, currentFiles, chainVars, docVars, rotVars,
                  presVars, agentVars >>

\* The signature is replaced by one that another keypair makes over the
\* attestation as it stands.
ResignAttestation(k) ==
  /\ attestation # None
  /\ k # attInput.key
  /\ Get(attestation, "signature") = Get(Attested, "signature")
  /\ LET payload == JSONStringify(<< <<"soulHash", Get(attestation, "soulHash")>>,
                                     <<"files", Get(attestation, "files")>>,
                                     <<"attestedAt", Get(attestation, "attestedAt")>> >>)
     IN  attestation' = Put(attestation, "signature",
                            signString(payload, generateKeypair(k).privateKey))
  /\ attResult' = None
  /\ UNCHANGED << idVars, callerVars, attInput, currentFiles, chainVars, docVars, rotVars,
                  presVars, agentVars >>

NextForge ==
  \/ \E n \in 1..Len(AgentFiles), k \in KeyIds, now \in Times : Attest(AgentFiles[n], k, now)
  \/ \E i \in 1..Len(currentFiles), text \in Contents :
       attestation = Attested /\ AlterFile(i, text)
  \/ \E i \in 1..Len(currentFiles), name \in FileNames :
       attestation = Attested /\ RenameFile(i, name)
  \/ TamperAttestation("soulHash", computeSoulHash(currentFiles))
  \/ TamperAttestation("files", FileNameList(Sort(ObjectKeys(currentFiles))))
  \/ TamperAttestation("attestedAt", Time(MaxTime + 1))
  \/ \E k \in KeyIds : ResignAttestation(k)
  \/ \E k \in KeyIds : VerifyAttestation(k)

SpecForge == InitForge /\ [][NextForge]_vars

(***************************************************************************)
(* Identifier scenario: an identifier is derived from a public key, the    *)
(* text is presented as derived or with its prefix replaced, and           *)
(* publicKeyFromSigilId is called on what is presented.                    *)
(***************************************************************************)
MaxKeyLen == 2

\* Byte values at the edges of the base58 digits: zero, one, the largest
\* digit, the first value needing two digits, and the largest byte.
KeyBytes == { 0, 1, 57, 58, 255 }

ByteStrings == UNION { [1..n -> KeyBytes] : n \in 1..MaxKeyLen }

\* Texts that do not start with 'sigil:', made from an identifier: the bare
\* base58 text, another scheme ('invalid:abc' in the tests), a capital
\* letter, the colon missing, a leading space, and the empty string.
UnprefixedIds(id) ==
  LET rest == SubSeq(id, Len(SIGIL_PREFIX) + 1, Len(id))
  IN  << rest,
         << "i", "n", "v", "a", "l", "i", "d", ":" >> \o rest,
         << "S", "i", "g", "i", "l", ":" >> \o rest,
         << "s", "i", "g", "i", "l" >> \o rest,
         << " " >> \o id,
         << >> >>

InitIdentity ==
  /\ ChainIdle
  /\ DocIdle
  /\ AttIdle
  /\ RotIdle
  /\ PresIdle
  /\ AgentIdle
  /\ IdIdle
  /\ CallerIdle

\* id = deriveSigilId(publicKey)
DeriveSigilId(publicKey) ==
  /\ idInput = None
  /\ idInput' = Bytes(publicKey)
  /\ idText' = Chars(deriveSigilId(publicKey))
  /\ idResult' = None
  /\ UNCHANGED << callerVars, chainVars, docVars, attVars, rotVars, presVars, agentVars >>

\* The text handed on is not the identifier but an unprefixed variant of it.
PresentUnprefixed(n) ==
  /\ idInput # None
  /\ idText = Chars(deriveSigilId(idInput.bytes))
  /\ idText' = Chars(UnprefixedIds(idText.c)[n])
  /\ idResult' = None
  /\ UNCHANGED << idInput, callerVars, chainVars, docVars, attVars, rotVars, presVars, agentVars >>

\* The call publicKeyFromSigilId(text): threw tells whether it ended in an
\* exception, and value is then None (nothing was returned).
PublicKeyFromSigilId ==
  /\ idText # None
  /\ idResult = None
  /\ idResult' = [ threw |-> publicKeyFromSigilIdThrows(idText.c),
                   value |-> IF publicKeyFromSigilIdThrows(idText.c) THEN None
                             ELSE Bytes(publicKeyFromSigilId(idText.c)) ]
  /\ UNCHANGED << idInput, idText, callerVars, chainVars, docVars, attVars, rotVars, presVars, agentVars >>

NextIdentity ==
  \/ \E publicKey \in ByteStrings : DeriveSigilId(publicKey)
  \/ \E n \in 1..6 : PresentUnprefixed(n)
  \/ PublicKeyFromSigilId

SpecIdentity == InitIdentity /\ [][NextIdentity]_vars

(***************************************************************************)
(* Key chain properties                                                    *)
(***************************************************************************)
\* The key a rotation must name as previousKey: the original key for the
\* first rotation, the preceding rotation's newKey otherwise.
ExpectedKey(i) ==
  IF i = 1 THEN chain.originalKey ELSE Get(rotations[i - 1], "newKey")

LinkGood(i) ==
  /\ Get(rotations[i], "previousKey") = ExpectedKey(i)
  /\ verifyRotation(rotations[i])

LastKey ==
  IF rotations = <<>> THEN Chars(bytesToHex(PublicKeyOf(originalKey)))
  ELSE Get(rotations[Len(rotations)], "newKey")

\* C1: verifyKeyChain reports valid exactly when every rotation continues
\* from the expected key and is signed by its own previousKey; a valid
\* result names the last rotation's newKey (the original key for an empty
\* list) and carries no brokenAt.
C1_ValidIffEveryLinkGood ==
  kcResult # None =>
    /\ kcResult.valid <=> \A i \in 1..Len(rotations) : LinkGood(i)
    /\ kcResult.valid =>
         /\ kcResult.currentKey = LastKey
         /\ "brokenAt" \notin DOMAIN kcResult

C1_Witness ==
  /\ kcResult # None
  /\ kcResult.valid
  /\ Len(rotations) >= 2
  /\ kcResult.currentKey # chain.originalKey

\* C2: an invalid result names the smallest zero-based index of a rotation
\* that is discontinuous or not signed by its previousKey, and the last key
\* known good before it.
C2_BrokenAtFirstBadLink ==
  (kcResult # None /\ ~kcResult.valid) =>
    /\ "brokenAt" \in DOMAIN kcResult
    /\ kcResult.brokenAt + 1 \in 1..Len(rotations)
    /\ ~LinkGood(kcResult.brokenAt + 1)
    /\ \A j \in 1..kcResult.brokenAt : LinkGood(j)
    /\ kcResult.currentKey = ExpectedKey(kcResult.brokenAt + 1)

\* R1 is good, the second rotation claims to continue from R1's newKey but
\* is not signed by that key: broken at index 1.
C2_Witness ==
  /\ kcResult # None
  /\ ~kcResult.valid
  /\ kcResult.brokenAt = 1
  /\ Get(rotations[2], "previousKey") = Get(rotations[1], "newKey")
  /\ ~verifyRotation(rotations[2])
  /\ kcResult.currentKey # chain.currentKey

\* C10: isKeyRevoked counts an entry only if it is marked and its proof was
\* verified against some key; an entry with a forged proof never makes a key
\* appear revoked.
C10_OnlyVerifiedRevocationsCount ==
  (revResult # None /\ revResult.revoked) =>
    \E i \in 1..Len(revocations) :
      /\ Get(revocations[i], "revokedKey") = revResult.key
      /\ Get(revocations[i], "validated") = Bool(TRUE)
      /\ \E pk \in PublicKeys :
           verifyRevocation(Omit(revocations[i], {"validated"}), pk)

(***************************************************************************)
(* Document properties                                                     *)
(***************************************************************************)
\* C3: after any field other than the proof is given another value, nested
\* fields of owner, integrity and endpoints included, verifyDocument returns
\* false.
C3_EveryFieldCovered ==
  (docResult # None /\ Omit(doc, {"id", "proof"}) # Omit(docOrig, {"id", "proof"}))
    => ~docResult.value

\* C4: a document whose id was replaced by another key's identifier is
\* rejected although its proof is the original signer's.
C4_SubstitutedIdRejected ==
  (/\ docResult # None
   /\ Get(doc, "id") # Get(docOrig, "id")
   /\ \E k \in KeyIds : Get(doc, "id") = Chars(deriveSigilId(PublicKeyOf(k))))
    => (~docResult.threw /\ ~docResult.value)

C4_Witness ==
  /\ docResult # None
  /\ Get(doc, "id") # Get(docOrig, "id")
  /\ Get(doc, "proof") = Get(docOrig, "proof")
  /\ ~publicKeyFromSigilIdThrows(Get(doc, "id").c)
  /\ publicKeyFromSigilId(Get(doc, "id").c) \in PublicKeys

\* C5: the document createDocument returns verifies, carries the identifier
\* derived from the keypair's public key, a verificationMethod of that
\* identifier followed by #key-1, and the attestation and owner claim exactly
\* when they were supplied.
C5_CreatedDocumentVerifies ==
  docOrig # None =>
    /\ (docResult # None /\ doc = docOrig) => docResult.value
    /\ Get(docOrig, "id") = Chars(deriveSigilId(generateKeypair(docInput.key).publicKey))
    /\ publicKeyFromSigilId(Get(docOrig, "id").c) = PublicKeyOf(docInput.key)
    /\ Get(Get(docOrig, "proof").o, "verificationMethod")
         = Chars(Get(docOrig, "id").c \o KeyOneSuffix)
    /\ Has(docOrig, "integrity") <=> docInput.integrity # Undefined
    /\ Has(docOrig, "owner") <=> docInput.owner # Undefined
    /\ Get(docOrig, "integrity") = docInput.integrity
    /\ Get(docOrig, "owner") = docInput.owner

C5_Witness ==
  /\ docResult # None
  /\ doc = docOrig
  /\ docResult.value
  /\ Has(doc, "integrity")
  /\ Has(doc, "owner")
  /\ Has(doc, "capabilities")

(***************************************************************************)
(* Attestation properties                                                  *)
(***************************************************************************)
NamesOf(files) == { files[i][1] : i \in 1..Len(files) }

\* Same name-to-content pairs, whatever the insertion order.
SameMap(f1, f2) ==
  /\ NamesOf(f1) = NamesOf(f2)
  /\ \A n \in NamesOf(f1) : Get(f1, n) = Get(f2, n)

\* Same names, and the content of at least one file differs.
ContentAltered(f1, f2) ==
  /\ NamesOf(f1) = NamesOf(f2)
  /\ \E n \in NamesOf(f1) : Get(f1, n) # Get(f2, n)

\* C6: verifying with the signer's key against files whose content was
\* altered after attestation reports a valid signature, no hash match, and
\* not intact.
C6_AlteredFilesDetected ==
  (/\ attResult # None
   /\ attResult.key = attInput.key
   /\ ContentAltered(attInput.files, currentFiles))
    => /\ attResult.result.signatureValid
       /\ ~attResult.result.hashMatch
       /\ ~attResult.result.intact

C6_Witness ==
  /\ attResult # None
  /\ attResult.key = attInput.key
  /\ ContentAltered(attInput.files, currentFiles)
  /\ Len(currentFiles) = 2

\* C7: verifying under a public key other than the signer's reports an
\* invalid signature and not intact, whatever the candidate files.
C7_WrongKeyRejected ==
  (attResult # None /\ attResult.key # attInput.key)
    => /\ ~attResult.result.signatureValid
       /\ ~attResult.result.intact

C7_Witness ==
  /\ attResult # None
  /\ attResult.key # attInput.key
  /\ currentFiles = attInput.files
  /\ attResult.result.hashMatch

\* C8: intact is signatureValid and hashMatch; signatureValid is the same for
\* every candidate file map; hashMatch and currentHash are the same for every
\* key and for a replaced signature; currentHash is the soul hash of the
\* candidate files; attested files under the signer's key give all three true.
C8_TwoFactsReportedIndependently ==
  attResult # None =>
    LET r == attResult.result
        pk == PublicKeyOf(attResult.key)
    IN  /\ r.intact = (r.signatureValid /\ r.hashMatch)
        /\ r.currentHash = computeSoulHash(currentFiles)
        /\ r.hashMatch = (r.currentHash = Get(attestation, "soulHash"))
        /\ \A f \in FileMaps :
             verifyAttestation(attestation, f, pk).signatureValid = r.signatureValid
        /\ \A k \in KeyIds :
             LET other == verifyAttestation(Put(attestation, "signature", ForgedProof),
                                            currentFiles, PublicKeyOf(k))
             IN  other.hashMatch = r.hashMatch /\ other.currentHash = r.currentHash
        /\ (currentFiles = attInput.files /\ attResult.key = attInput.key)
             => (r.signatureValid /\ r.hashMatch /\ r.intact)

C8_Witness ==
  /\ attResult # None
  /\ attResult.key = attInput.key
  /\ currentFiles = attInput.files
  /\ attResult.result.intact

\* C9: the soul hash is the same for file maps holding the same pairs in any
\* insertion order, and differs when the content of a file is changed.
C9_SoulHashOrderFreeContentBound ==
  attestation # None =>
    /\ SameMap(attInput.files, currentFiles)
         => computeSoulHash(currentFiles) = computeSoulHash(attInput.files)
    /\ ContentAltered(attInput.files, currentFiles)
         => computeSoulHash(currentFiles) # computeSoulHash(attInput.files)

C9_Witness ==
  /\ attestation # None
  /\ currentFiles # attInput.files
  /\ SameMap(attInput.files, currentFiles)
  /\ Get(attestation, "soulHash") = computeSoulHash(currentFiles)

(***************************************************************************)
(* Agent properties                                                        *)
(***************************************************************************)
\* The key the agent was created with: the key that the first rotate call
\* replaced, or the active key when no rotate call was made.
CreationKey ==
  IF calls = <<>> THEN agent.keypair.publicKey
  ELSE hexToBytes(Get(calls[1], "previousKey").c)

\* C11: isKeyRevoked on the agent's key chain reports a key revoked exactly
\* when the agent's revokeKey was called on it: a key revoked through the
\* library is detected, a key that was not revoked is not.
C11_LibraryRevocationDetected ==
  ret.op = "isKeyRevoked" =>
    LET revs == keyChain(agent, heap).revocations
    IN  ret.revoked <=> \E i \in 1..Len(revs) : Get(revs[i], "revokedKey") = ret.key

\* C12: the agent's identifier is the one derived from the key it was
\* created with, whatever was called since; rotateKey makes the returned
\* keypair the active one and returns a statement, from the replaced key to
\* the new one, that verifyRotation accepts.
C12_IdentifierPermanent ==
  /\ agent.id = Chars(deriveSigilId(CreationKey))
  /\ ret.op = "rotateKey" =>
       /\ agent.keypair = ret.returned.newKeypair
       /\ Get(ret.returned.rotation, "newKey") = Chars(bytesToHex(agent.keypair.publicKey))
       /\ Get(ret.returned.rotation, "newKey") # Get(ret.returned.rotation, "previousKey")
       /\ verifyRotation(ret.returned.rotation)

C12_Witness ==
  /\ ret.op = "rotateKey"
  /\ Len(calls) = 2
  /\ heap[agent.revocations] # <<>>
  /\ agent.keypair.publicKey # CreationKey

\* C13: the agent's key chain holds the statements its rotate calls
\* returned, in call order; it verifies, and the stated and the verified
\* current key are both the agent's active public key.
C13_AgentChainValid ==
  LET c == keyChain(agent, heap)
      r == verifyKeyChain(c)
  IN  /\ c.rotations = calls
      /\ r.valid
      /\ c.currentKey = Chars(bytesToHex(agent.keypair.publicKey))
      /\ r.currentKey = Chars(bytesToHex(agent.keypair.publicKey))
      /\ c.originalKey = Chars(bytesToHex(CreationKey))

C13_Witness ==
  /\ Len(calls) = 2
  /\ Get(calls[1], "reason") = Str("routine")
  /\ Get(calls[2], "reason") = Str("compromised")
  /\ heap[agent.revocations] # <<>>
  /\ verifyKeyChain(keyChain(agent, heap)).valid

\* C14: a document returned by agent.document() carries the agent's
\* identifier and verifies, also after rotations, and its integrity field is
\* the latest attestation when there is one.
C14_DocumentCarriesAgentId ==
  ret.op = "document" =>
    /\ Get(ret.doc, "id") = agent.id
    /\ verifyDocument(ret.doc)
    /\ Has(ret.doc, "integrity") <=> agent.attestation # Null
    /\ agent.attestation # Null => Get(ret.doc, "integrity") = agent.attestation

\* C15: verifyIntegrity reports intact for an attestation the agent made
\* and the attested files unchanged, whatever the agent did in between.
C15_OwnAttestationStaysIntact ==
  ret.op = "verifyIntegrity" => ret.result.intact

\* C16: a receipt names the agent in from, carries the supplied to, action
\* and quality, and its fromProof verifies over the receipt without its
\* proofs under the public key recovered from from.
C16_ReceiptVerifiesUnderFrom ==
  ret.op = "issueReceipt" =>
    LET receipt == ret.receipt
        body == Omit(receipt, {"fromProof", "toProof"})
    IN  /\ Get(receipt, "from") = agent.id
        /\ Get(receipt, "to") = Get(ret.params, "to")
        /\ Get(receipt, "action") = Get(ret.params, "action")
        /\ Get(receipt, "quality") = Get(ret.params, "quality")
        /\ ~publicKeyFromSigilIdThrows(Get(receipt, "from").c)
        /\ verifyString(Get(receipt, "fromProof"), JSONStringify(body),
                        publicKeyFromSigilId(Get(receipt, "from").c))

(***************************************************************************)
(* Error handling                                                          *)
(***************************************************************************)
\* C17: no verify-style operation throws; verifyDocument returns false for
\* a document whose id lacks the prefix or does not decode, and for a proof
\* that is not a well-formed encoding.
C17_VerifyNeverThrows ==
  docResult # None => ~docResult.threw

(***************************************************************************)
(* Presented chain properties                                              *)
(***************************************************************************)
\* C18: buildKeyChain states as currentKey the last rotation's newKey, or
\* the original key when there is no rotation; and whenever verifyKeyChain
\* reports a presented chain valid, the chain's stated currentKey is that
\* key, the currentKey the verification reports.
C18_StatedCurrentKeyOfValidChain ==
  presented # None =>
    /\ presented = chain => presented.currentKey = LastKey
    /\ (kcResult # None /\ kcResult.valid) =>
         /\ presented.currentKey = LastKey
         /\ presented.currentKey = kcResult.currentKey

(***************************************************************************)
(* Rotation statement properties                                           *)
(***************************************************************************)
\* C19: the statement createRotation returns names the outgoing key as
\* previousKey and the incoming key as newKey and verifies; a statement with
\* a body field changed after signing, or with a proof made by a key that
\* previousKey does not name, does not verify.
C19_RotationSignedByOutgoingKey ==
  rotation # None =>
    /\ Get(rotInput.made, "previousKey") = Chars(bytesToHex(PublicKeyOf(rotInput.old)))
    /\ Get(rotInput.made, "newKey") = Chars(bytesToHex(PublicKeyOf(rotInput.new)))
    /\ Get(rotInput.made, "proof").g.signer = PublicKeyOf(rotInput.old)
    /\ rotResult # None =>
         /\ rotation = rotInput.made => rotResult.value
         /\ (/\ Get(rotation, "proof") = Get(rotInput.made, "proof")
             /\ Omit(rotation, {"proof"}) # Omit(rotInput.made, {"proof"}))
              => ~rotResult.value
         /\ Get(rotation, "proof").g.signer # hexToBytes(Get(rotation, "previousKey").c)
              => ~rotResult.value

\* A statement that the incoming key signed over its own, unaltered body.
C19_Witness ==
  /\ rotResult # None
  /\ ~rotResult.value
  /\ rotInput.old # rotInput.new
  /\ Omit(rotation, {"proof"}) = Omit(rotInput.made, {"proof"})
  /\ Get(rotation, "proof").g.signer = PublicKeyOf(rotInput.new)
  /\ Get(rotation, "proof").g.msg = Get(rotInput.made, "proof").g.msg

(***************************************************************************)
(* Restore properties                                                      *)
(***************************************************************************)
\* C20: an agent restored with fromKeyChain from a live agent has that
\* agent's identifier; its key chain verifies with the restored agent's
\* active key as current key, also after it rotated further; and the live
\* agent's rotation list still holds exactly the statements of its own
\* rotate calls.
C20_RestoredAgentContinuesChain ==
  restored # None =>
    LET c == keyChain(restored, heap)
        r == verifyKeyChain(c)
    IN  /\ restored.id = agent.id
        /\ r.valid
        /\ r.currentKey = Chars(bytesToHex(restored.keypair.publicKey))
        /\ c.currentKey = Chars(bytesToHex(restored.keypair.publicKey))
        /\ heap[agent.rotations] = calls

C20_Witness ==
  /\ restored # None
  /\ calls # <<>>
  /\ Len(heap[restored.rotations]) > Len(calls)
  /\ restored.keypair # agent.keypair
  /\ restored.id = agent.id

(***************************************************************************)
(* Identifier properties                                                   *)
(***************************************************************************)
\* C21: publicKeyFromSigilId gives back the public key an identifier was
\* derived from; two public keys have the same identifier exactly when they
\* are the same key; and publicKeyFromSigilId ends in an error, returning
\* nothing, for every text that does not start with 'sigil:'.
C21_IdentifierRoundTrip ==
  idInput # None =>
    /\ \A pk \in ByteStrings :
         (deriveSigilId(pk) = deriveSigilId(idInput.bytes)) <=> (pk = idInput.bytes)
    /\ idResult # None =>
         /\ idText = Chars(deriveSigilId(idInput.bytes))
              => (~idResult.threw /\ idResult.value = idInput)
         /\ ~StartsWith(idText.c, SIGIL_PREFIX)
              => (idResult.threw /\ idResult.value = None)

\* A key that starts with a zero byte went through the round trip.
C21_Witness ==
  /\ idResult # None
  /\ idText = Chars(deriveSigilId(idInput.bytes))
  /\ Len(idInput.bytes) >= 2
  /\ idInput.bytes[1] = 0
  /\ idResult.value = idInput

(***************************************************************************)
(* Confidentiality of the private key                                      *)
(***************************************************************************)
\* The forms in which a record could carry a key: its bytes, its hex text in
\* either case, its base58 text, and an identifier made of it.
IsKeyForm(v, key) ==
  \/ v = Bytes(key)
  \/ v = Chars(bytesToHex(key))
  \/ v = Chars(ToUpperHex(bytesToHex(key)))
  \/ v = Chars(bs58encode(key))
  \/ v = Chars(deriveSigilId(key))

RECURSIVE HoldsKey(_, _)
HoldsKey(v, key) ==
  IF IsObj(v) THEN \E i \in 1..Len(v.o) : HoldsKey(v.o[i][2], key)
  ELSE IF IsArr(v) THEN \E i \in 1..Len(v.a) : HoldsKey(v.a[i], key)
  ELSE IsKeyForm(v, key)

StatementList(statements) == Arr([i \in 1..Len(statements) |-> Obj(statements[i])])

\* The record the last call handed out (of rotateKey's result, the rotation
\* statement), as a JSON value.
ReturnedRecord ==
  CASE ret.op = "toPublic" -> Obj(ret.exported)
    [] ret.op = "document" -> Obj(ret.doc)
    [] ret.op = "attestIntegrity" -> Obj(ret.attestation)
    [] ret.op = "issueReceipt" -> Obj(ret.receipt)
    [] ret.op = "revokeKey" -> Obj(ret.revocation)
    [] ret.op = "rotateKey" -> Obj(ret.returned.rotation)
    [] ret.op = "rotateToKeypair" -> Obj(ret.rotation)
    [] ret.op = "keyChain" ->
         Obj(<< <<"originalKey", ret.chain.originalKey>>,
                <<"currentKey", ret.chain.currentKey>>,
                <<"rotations", StatementList(ret.chain.rotations)>>,
                <<"revocations", StatementList(ret.chain.revocations)>> >>)
    [] OTHER -> Obj(<<>>)

\* C22: no record handed out by toPublic, document, attestIntegrity,
\* issueReceipt, revokeKey or keyChain, and no rotation statement returned by
\* rotateKey or rotateToKeypair, has a field, at any depth, whose value is a
\* private key of a generated keypair in any encoding.
C22_NoPrivateKeyInRecords ==
  \A k \in KeyIds : ~HoldsKey(ReturnedRecord, generateKeypair(k).privateKey)

\* toPublic after a rotation: the exported record does hold the active
\* public key.
C22_Witness ==
  /\ ret.op = "toPublic"
  /\ calls # <<>>
  /\ agent.keypair.publicKey # CreationKey
  /\ HoldsKey(ReturnedRecord, agent.keypair.publicKey)

(***************************************************************************)
(* Statements of the agent's key history                                   *)
(***************************************************************************)
\* C23: every rotation statement and every revocation statement in the
\* agent's key chain names the agent's permanent identifier in sigilId,
\* the second and later statements included.
C23_StatementsCarryAgentId ==
  LET c == keyChain(agent, heap)
  IN  /\ \A i \in 1..Len(c.rotations) : Get(c.rotations[i], "sigilId") = agent.id
      /\ \A i \in 1..Len(c.revocations) : Get(c.revocations[i], "sigilId") = agent.id

\* C24: the agent's active public key is not the previousKey of any rotation
\* in its history: a key that a rotation replaced does not sign again.
C24_SupersededKeyNotReused ==
  \A i \in 1..Len(heap[agent.rotations]) :
    Chars(bytesToHex(agent.keypair.publicKey)) # Get(heap[agent.rotations][i], "previousKey")

(***************************************************************************)
(* Receipt properties                                                      *)
(***************************************************************************)
\* C29: the bytes the issuer signed are the canonical form of the receipt
\* without fromProof and toProof, its fields in sorted order as canonicalize
\* writes a document, so that they are the same for every insertion order.
C29_ReceiptSignedOverCanonicalForm ==
  ret.op = "issueReceipt" =>
    LET body == Omit(ret.receipt, {"fromProof", "toProof"})
    IN  Get(ret.receipt, "fromProof").g.msg = canonicalize(body)

(***************************************************************************)
(* Returned key chain                                                      *)
(***************************************************************************)
\* C25: a KeyChain returned by keyChain() stays as it was returned: calls
\* made on the agent afterwards change neither its rotations nor its
\* revocations, its currentKey stays the newKey of its own last rotation
\* (the original key when it has none), and a change made to its lists
\* leaves the agent's history, the statements of its own rotate calls,
\* as it was.
C25_ReturnedChainImmutable ==
  held # None =>
    LET c == ReadChain(held.chain, heap)
    IN  /\ c.rotations = held.asReturned.rotations
        /\ c.revocations = held.asReturned.revocations
        /\ c.currentKey = IF c.rotations = <<>> THEN c.originalKey
                          ELSE Get(c.rotations[Len(c.rotations)], "newKey")
        /\ heap[agent.rotations] = calls

(***************************************************************************)
(* Receipt identifiers                                                     *)
(***************************************************************************)
\* The number written after the last '-' of a receipt id.
RECURSIVE DecimalValue(_)
DecimalValue(text) ==
  IF text = <<>> THEN 0
  ELSE DecimalValue(SubSeq(text, 1, Len(text) - 1)) * 10
       + (CHOOSE d \in 0..9 : DecimalDigits[d + 1] = text[Len(text)])

EmbeddedSeq(id) ==
  LET dash == CHOOSE i \in 1..Len(id) : id[i] = "-" /\ \A j \in (i + 1)..Len(id) : id[j] # "-"
  IN  DecimalValue(SubSeq(id, dash + 1, Len(id)))

\* C30: any two receipts issued in the process, by whichever instances and
\* at whatever clock values, have different ids, and the sequence number
\* written in the id grows strictly in issue order.
C30_ReceiptIdsDistinct ==
  /\ \A i, j \in 1..Len(issued) : i # j => Get(issued[i], "id") # Get(issued[j], "id")
  /\ \A i \in 1..(Len(issued) - 1) :
       EmbeddedSeq(Get(issued[i], "id").c) < EmbeddedSeq(Get(issued[i + 1], "id").c)

\* Two instances issued receipts at the same clock value.
C30_Witness ==
  /\ Len(issued) >= 3
  /\ \E i, j \in 1..Len(issued) :
       /\ Get(issued[i], "from") # Get(issued[j], "from")
       /\ Get(issued[i], "timestamp") = Get(issued[j], "timestamp")

(***************************************************************************)
(* Broken chain properties                                                 *)
(***************************************************************************)
\* The first rotation (counted from 1) that is discontinuous or not signed
\* by its previousKey.
FirstBadLink ==
  CHOOSE i \in 1..Len(rotations) : ~LinkGood(i) /\ \A j \in 1..(i - 1) : LinkGood(j)

\* C26: the verdict on a broken chain is the verdict on the chain cut after
\* its first bad link, presented with no revocations and with its original
\* key as stated currentKey: brokenAt is the index of the first bad link,
\* and neither the rotations after it, however well signed, nor the stated
\* currentKey nor the revocations change valid, currentKey or brokenAt.
C26_NothingPastBreakCounts ==
  (presented # None /\ kcResult # None /\ ~kcResult.valid) =>
    /\ kcResult.brokenAt = FirstBadLink - 1
    /\ kcResult = verifyKeyChain([ originalKey |-> presented.originalKey,
                                   currentKey  |-> presented.originalKey,
                                   rotations   |-> SubSeq(presented.rotations, 1, FirstBadLink),
                                   revocations |-> <<>> ])

\* Broken at the first rotation, followed by a rotation that is well signed
\* and continues from it; a revocation is attached and the stated
\* currentKey was overwritten.
C26_Witness ==
  /\ presented # None
  /\ kcResult # None
  /\ ~kcResult.valid
  /\ kcResult.brokenAt = 0
  /\ Len(presented.rotations) >= 2
  /\ verifyRotation(presented.rotations[2])
  /\ Get(presented.rotations[2], "previousKey") = Get(presented.rotations[1], "newKey")
  /\ presented.revocations # <<>>
  /\ presented.currentKey # LastKey

(***************************************************************************)
(* Forgery properties                                                      *)
(***************************************************************************)
\* C27: for an attestation as createAttestation returned it, hashMatch is
\* reported only when the candidate files have exactly the names the
\* attestation lists, each with the attested content; renamed files do not
\* match.
C27_SoulHashBindsNames ==
  (attResult # None /\ attestation = Attested /\ attResult.result.hashMatch) =>
    /\ FileNameList(Sort(ObjectKeys(currentFiles))) = Get(attestation, "files")
    /\ SameMap(attInput.files, currentFiles)

\* C28: once soulHash, files or attestedAt of an attestation differs from
\* what createAttestation returned, verification under the signer's public
\* key reports the signature invalid and the files not intact, whether the
\* original signature is kept or another keypair signed the altered
\* attestation, and whatever the candidate files.
C28_RepointedAttestationRejected ==
  (/\ attResult # None
   /\ attResult.key = attInput.key
   /\ Omit(attestation, {"signature"}) # Omit(Attested, {"signature"}))
    => /\ ~attResult.result.signatureValid
       /\ ~attResult.result.intact

\* The files were rewritten and soulHash replaced by their hash: the hash
\* matches, and the signer's key still rejects the attestation.
C28_Witness ==
  /\ attResult # None
  /\ attResult.key = attInput.key
  /\ ContentAltered(attInput.files, currentFiles)
  /\ Get(attestation, "soulHash") = computeSoulHash(currentFiles)
  /\ Get(attestation, "soulHash") # Get(Attested, "soulHash")
  /\ attResult.result.hashMatch
  /\ ~attResult.result.intact

====
